---- MODULE Spec2Model ----
(***************************************************************************)
(* Model of the object layer of the ray tracer (rtow/src/object.rs) and of *)
(* the geometry kernel it rests on (geometry3d/src/lib.rs): axis-aligned   *)
(* bounding boxes, the primitives, List, the BVH build and its traversal.  *)
(*                                                                         *)
(* Numbers.  The program computes in f64.  The model computes in integers, *)
(* on inputs where every f64 operation of the code is exact (small integer *)
(* coordinates, direction components in {-1, 0, 1}, spheres whose          *)
(* discriminant is a perfect square), extended with the three non-finite   *)
(* outcomes of an f64 division: +infinity, -infinity and NaN.              *)
(***************************************************************************)
EXTENDS Integers, Sequences, FiniteSets, TLC

(***************************************************************************)
(* f64 values: a finite integer, or PInf, NInf, NaN.  NegZero is the f64   *)
(* -0.0; it only occurs as a direction component (it compares equal to 0   *)
(* and only changes the sign of a division by it).                         *)
(***************************************************************************)
PInf == 1000000
NInf == -1000000
NaN == 2000000
NegZero == 3000000

IsNaN(x) == x = NaN
IsFinite(x) == x > NInf /\ x < PInf
IsZero(x) == x = 0 \/ x = NegZero

\* f64 comparisons: every comparison with NaN is false
FLt(x, y) == ~IsNaN(x) /\ ~IsNaN(y) /\ x < y
FLe(x, y) == ~IsNaN(x) /\ ~IsNaN(y) /\ x <= y

\* f64::min and f64::max: when one argument is NaN the other is returned
FMin(x, y) == IF IsNaN(x) THEN y ELSE IF IsNaN(y) THEN x ELSE IF x < y THEN x ELSE y
FMax(x, y) == IF IsNaN(x) THEN y ELSE IF IsNaN(y) THEN x ELSE IF x > y THEN x ELSE y

Abs(x) == IF x < 0 THEN -x ELSE x
Sgn(x) == IF x > 0 THEN 1 ELSE IF x < 0 THEN -1 ELSE 0

\* x / y for a finite numerator x; y finite, 0 or -0.0.  Exact where y divides x.
FDiv(x, y) ==
    IF y = 0 THEN (IF x > 0 THEN PInf ELSE IF x < 0 THEN NInf ELSE NaN)
    ELSE IF y = NegZero THEN (IF x > 0 THEN NInf ELSE IF x < 0 THEN PInf ELSE NaN)
    ELSE Sgn(x) * Sgn(y) * (Abs(x) \div Abs(y))

\* t * d for an f64 t and a finite d (inf * 0 = NaN)
FMul(t, d) ==
    IF IsNaN(t) THEN NaN
    ELSE IF IsFinite(t) THEN t * d
    ELSE IF d = 0 THEN NaN
    ELSE IF (t = PInf) = (d > 0) THEN PInf ELSE NInf

\* o + x for a finite o and an f64 x
FAdd(o, x) == IF IsFinite(x) THEN o + x ELSE x

Min2(x, y) == IF x < y THEN x ELSE y
Max2(x, y) == IF x > y THEN x ELSE y

(***************************************************************************)
(* Vec3 / Point3 / Ray3                                                    *)
(***************************************************************************)
Axes3 == 1..3

Dot(a, b) == a[1] * b[1] + a[2] * b[2] + a[3] * b[3]
VAdd(a, b) == <<a[1] + b[1], a[2] + b[2], a[3] + b[3]>>
VSub(a, b) == <<a[1] - b[1], a[2] - b[2], a[3] - b[3]>>
VScale(k, a) == <<k * a[1], k * a[2], k * a[3]>>

\* ray.at(t) for a finite t
RayAt(ray, t) == VAdd(ray.origin, VScale(t, ray.direction))
\* ray.at(t) for any f64 t
RayAtF(ray, t) ==
    <<FAdd(ray.origin[1], FMul(t, ray.direction[1])),
      FAdd(ray.origin[2], FMul(t, ray.direction[2])),
      FAdd(ray.origin[3], FMul(t, ray.direction[3]))>>

\* A permute that stores component i of p at index axes[i] of the result.
Permute_Scatter(p, axes) ==
    LET inv(i) == CHOOSE j \in 1..3 : axes[j] = i
    IN  <<p[inv(1)], p[inv(2)], p[inv(3)]>>

\* p.permute(axes): component i of the result is component axes[i] of p
Permute(p, axes) == <<p[axes[1]], p[axes[2]], p[axes[3]]>>
\* p.unpermute(axes): the inverse of permute
Unpermute(p, axes) ==
    LET inv(i) == CHOOSE j \in Axes3 : axes[j] = i
    IN  <<p[inv(1)], p[inv(2)], p[inv(3)]>>

(***************************************************************************)
(* TRange and AABB                                                         *)
(***************************************************************************)
TRange(s, e) == [start |-> s, end |-> e]

\* a contains that checks the lower end only
TRange_contains_NoEnd(r, i) == FLe(r.start, i)

TRange_contains(r, i) == FLe(r.start, i) /\ FLe(i, r.end)

pmin(a, b) == <<Min2(a[1], b[1]), Min2(a[2], b[2]), Min2(a[3], b[3])>>
pmax(a, b) == <<Max2(a[1], b[1]), Max2(a[2], b[2]), Max2(a[3], b[3])>>

\* the assertion of AABB::new
AABB_new_ok(a, b) == \A i \in Axes3 : a[i] # b[i]
\* a constructor that keeps the corners in the order given
AABB_new_Unsorted(a, b) == [lo |-> a, hi |-> b]

AABB_new(a, b) == [lo |-> pmin(a, b), hi |-> pmax(a, b)]

\* Option<AABB>
NoBox == [some |-> FALSE, lo |-> <<0, 0, 0>>, hi |-> <<0, 0, 0>>]
SomeBox(b) == [some |-> TRUE, lo |-> b.lo, hi |-> b.hi]
Unwrap(ob) == [lo |-> ob.lo, hi |-> ob.hi]

\* a merge that has no box as soon as one side has none
AABB_merge_NoneAbsorbs(a, b) ==
    IF a.some /\ b.some
    THEN [some |-> TRUE, lo |-> pmin(a.lo, b.lo), hi |-> pmax(a.hi, b.hi)]
    ELSE NoBox

AABB_merge(a, b) ==
    IF a.some
    THEN IF b.some
         THEN [some |-> TRUE, lo |-> pmin(a.lo, b.lo), hi |-> pmax(a.hi, b.hi)]
         ELSE a
    ELSE b

AABB_volume(b) ==
    Abs((b.hi[1] - b.lo[1]) * (b.hi[2] - b.lo[2]) * (b.hi[3] - b.lo[3]))

\* AABB::t: per axis t-values of the planes through `extent`
AABB_t(extent, ray) ==
    <<FDiv(extent[1] - ray.origin[1], ray.direction[1]),
      FDiv(extent[2] - ray.origin[2], ray.direction[2]),
      FDiv(extent[3] - ray.origin[3], ray.direction[3])>>

\* the assertion at the head of AABB::hit
AABB_hit_ok(t_range) == FLt(t_range.start, t_range.end)

\* the largest lower and the smallest upper t-value, compared with <=
AABB_overlap_NonStrict(t_lower, t_upper, t_range) ==
    LET t_min == FMax(FMax(FMax(t_range.start, t_lower[1]), t_lower[2]), t_lower[3])
        t_max == FMin(FMin(FMin(t_range.end, t_upper[1]), t_upper[2]), t_upper[3])
    IN  FLe(t_min, t_max)

\* the largest lower and the smallest upper t-value: t_min < t_max
AABB_overlap(t_lower, t_upper, t_range) ==
    LET t_min == FMax(FMax(FMax(t_range.start, t_lower[1]), t_lower[2]), t_lower[3])
        t_max == FMin(FMin(FMin(t_range.end, t_upper[1]), t_upper[2]), t_upper[3])
    IN  FLt(t_min, t_max)

\* the t-values t0, t1 of the two extents, sorted per axis
AABB_sorted(t0, t1, t_range) ==
    AABB_overlap(<<FMin(t0[1], t1[1]), FMin(t0[2], t1[2]), FMin(t0[3], t1[3])>>,
                 <<FMax(t0[1], t1[1]), FMax(t0[2], t1[2]), FMax(t0[3], t1[3])>>, t_range)

AABB_hit(b, ray, t_range) == AABB_sorted(AABB_t(b.lo, ray), AABB_t(b.hi, ray), t_range)
(***************************************************************************)
(* State.                                                                  *)
(*   pc       where the renderer is: "start" (scene loaded), "ready" (the  *)
(*            hierarchy is built, no call in progress), "returned" (a call *)
(*            has returned and its result is in `last`), "panicked"        *)
(*   scene    the scene list as loaded (the input of BVHNode::from_list)   *)
(*   objects  olist.objects, the Vec the build partitions and sorts        *)
(*   split    the index i at which the sweep of from_list ended            *)
(*   root     the BVHNode from_list returned                               *)
(*   tie      how sort_unstable_by orders members with equal keys          *)
(*   last     the last call: its operation, arguments and result           *)
(*   perlins  the Perlin values of the scene's noise textures              *)
(*   texture  the ImageTexture of the scene                                *)
(*   file     what the file system holds under the texture's filename      *)
(*   thread_rng  the state of the thread-local generator (rand::rng())     *)
(*   inits    the calls of Perlin::init and ImageTexture::init that ran,   *)
(*            per value: the argument of each (history variable)           *)
(*   image    the Image main renders into                                  *)
(*   image_iter    the ImageIter of main's outer loop                      *)
(*   sampler_iter  the SquareSamplerIter of main's inner loop              *)
(*   stack    the activations of ray_color, the outermost first            *)
(*   hits     how many times the running ray_color called world.hit        *)
(*            (history variable)                                           *)
(***************************************************************************)
VARIABLES pc, scene, objects, split, root, tie, last,
          perlins, texture, file, thread_rng, inits,
          image, image_iter, sampler_iter, stack, hits

texvars == <<perlins, texture, file, thread_rng, inits>>

rendervars == <<image, image_iter, sampler_iter, stack, hits>>

vars == <<pc, scene, objects, split, root, tie, last, texvars, rendervars>>

\* A run outside the render loop of main.
NoRender ==
    /\ image = <<>>
    /\ image_iter = <<>>
    /\ sampler_iter = <<>>
    /\ stack = <<>>
    /\ hits = 0

\* A run that has no textures.
NoTextures ==
    /\ perlins = <<>>
    /\ texture = [st |-> "none"]
    /\ file = "none"
    /\ thread_rng = 0
    /\ inits = <<>>

(***************************************************************************)
(* Objects (enum Object).  Every object is a record with a field `kind`.   *)
(***************************************************************************)
Sphere(o, d, tm, r, m) ==
    [kind |-> "Sphere", o |-> o, d |-> d, tm |-> tm, r |-> r, m |-> m]
\* rect!($x, $y, $z, ...): u and v are the two in-plane ranges, w the offset
Rect(kind, u, v, w, m) == [kind |-> kind, u |-> u, v |-> v, w |-> w, m |-> m]
RectPrismU(p0, p1, m) == [kind |-> "RectPrism", st |-> "U", p0 |-> p0, p1 |-> p1, m |-> m]
RectPrismI(sides) == [kind |-> "RectPrism", st |-> "I", sides |-> sides]
List(objs) == [kind |-> "List", objects |-> objs]
BVHNode(aabb, left, right) ==
    [kind |-> "BVHNode", aabb |-> aabb, left |-> left, right |-> right]
NoNode == [kind |-> "none"]

RectKinds == {"XYRect", "XZRect", "YZRect"}

\* the axes [Axis::$X, Axis::$Y, Axis::$Z] of the three instances of rect!
RectAxes(kind) ==
    IF kind = "XYRect" THEN <<1, 2, 3>>
    ELSE IF kind = "XZRect" THEN <<1, 3, 2>>
    ELSE <<2, 3, 1>>

\* the epsilon of the rectangles' bounding_box
RectEpsilon == 1

Sphere_center(s, time) == VAdd(s.o, VScale(time - s.tm, s.d))

\* a box that covers the sphere at t_range.start only
Sphere_bounding_box_AtStart(s, t_range) ==
    LET rvec == <<s.r, s.r, s.r>>
        center0 == Sphere_center(s, t_range.start)
        box0 == AABB_new(VSub(center0, rvec), VAdd(center0, rvec))
    IN  AABB_merge(SomeBox(box0), SomeBox(box0))

Sphere_bounding_box(s, t_range) ==
    LET rvec == <<s.r, s.r, s.r>>
        center0 == Sphere_center(s, t_range.start)
        center1 == Sphere_center(s, t_range.end)
        box0 == AABB_new(VSub(center0, rvec), VAdd(center0, rvec))
        box1 == AABB_new(VSub(center1, rvec), VAdd(center1, rvec))
    IN  AABB_merge(SomeBox(box0), SomeBox(box1))

Rect_bounding_box(r, t_range) ==
    LET axes == RectAxes(r.kind)
        lower == Unpermute(<<r.u.start, r.v.start, r.w - RectEpsilon>>, axes)
        upper == Unpermute(<<r.u.end, r.v.end, r.w + RectEpsilon>>, axes)
    IN  SomeBox(AABB_new(lower, upper))

RectPrism_bounding_box(p, t_range) ==
    IF p.st = "U" THEN SomeBox(AABB_new(p.p0, p.p1)) ELSE SomeBox(p.sides.aabb)

BVHNode_bounding_box(n, t_range) == SomeBox(n.aabb)

RECURSIVE Object_bounding_box(_, _)
RECURSIVE ListMergeFrom(_, _, _, _)

\* the loop of List::bounding_box from member k on, aabb being the merge so far
ListMergeFrom(objs, k, aabb, t_range) ==
    IF k > Len(objs) THEN aabb
    ELSE ListMergeFrom(objs, k + 1,
                       AABB_merge(aabb, Object_bounding_box(objs[k], t_range)), t_range)

\* a List::bounding_box that gives up at the first member without a box
List_bounding_box_AnyNone(l, t_range) ==
    IF \E k \in 1..Len(l.objects) : ~Object_bounding_box(l.objects[k], t_range).some
    THEN NoBox
    ELSE ListMergeFrom(l.objects, 1, NoBox, t_range)

List_bounding_box(l, t_range) == ListMergeFrom(l.objects, 1, NoBox, t_range)

Object_bounding_box(obj, t_range) ==
    IF obj.kind = "Sphere" THEN Sphere_bounding_box(obj, t_range)
    ELSE IF obj.kind \in RectKinds THEN Rect_bounding_box(obj, t_range)
    ELSE IF obj.kind = "RectPrism" THEN RectPrism_bounding_box(obj, t_range)
    ELSE IF obj.kind = "List" THEN List_bounding_box(obj, t_range)
    ELSE BVHNode_bounding_box(obj, t_range)

(***************************************************************************)
(* The BVH build                                                           *)
(***************************************************************************)
\* object_lo composed with axis: the sort key of an object on an axis
SortKey(obj, axis, t_range) == Object_bounding_box(obj, t_range).lo[axis]

\* the members from k on, each with its sort key
RECURSIVE KeyedFrom(_, _, _, _)
KeyedFrom(objs, k, axis, t_range) ==
    IF k > Len(objs) THEN <<>>
    ELSE <<[key |-> SortKey(objs[k], axis, t_range), obj |-> objs[k]]>>
         \o KeyedFrom(objs, k + 1, axis, t_range)

\* where x goes into the sorted sequence s: behind the members with a smaller
\* key; members with an equal key stay in front of x ("stable") or go behind
\* it ("reversed"), two of the orders an unstable sort can leave them in
InsertPos(s, x) ==
    Cardinality({k \in 1..Len(s) : IF tie = "stable" THEN s[k].key <= x.key
                                   ELSE s[k].key < x.key})

RECURSIVE SortFrom(_, _, _)
SortFrom(keyed, k, sorted) ==
    IF k > Len(keyed) THEN sorted
    ELSE LET p == InsertPos(sorted, keyed[k])
         IN  SortFrom(keyed, k + 1,
                      SubSeq(sorted, 1, p) \o <<keyed[k]>> \o SubSeq(sorted, p + 1, Len(sorted)))

RECURSIVE Unkeyed(_, _)
Unkeyed(keyed, k) ==
    IF k > Len(keyed) THEN <<>> ELSE <<keyed[k].obj>> \o Unkeyed(keyed, k + 1)

\* a sort that leaves the least member in every place of the slice
sort_unstable_by_Fill(objs, axis, t_range) ==
    [k \in 1..Len(objs) |->
        Unkeyed(SortFrom(KeyedFrom(objs, 1, axis, t_range), 1, <<>>), 1)[1]]

\* objects.sort_unstable_by(Self::cmp(f))
sort_unstable_by(objs, axis, t_range) ==
    Unkeyed(SortFrom(KeyedFrom(objs, 1, axis, t_range), 1, <<>>), 1)

\* the ratio vl.max(vr) / vl.min(vr), kept as a fraction
Ratio(vl, vr) == [num |-> Max2(vl, vr), den |-> Min2(vl, vr)]
RatioLt(a, b) == a.num * b.den < b.num * a.den
RatioEq(a, b) == a.num * b.den = b.num * a.den
RatioMin(a, b) == IF RatioLt(b, a) THEN b ELSE a

RECURSIVE BVHNode_from_vec(_, _)

\* the pair (left, right), its ratio, and the slice as the call leaves it
LrPair(l, r) ==
    [left |-> l.node, right |-> r.node,
     ratio |-> Ratio(AABB_volume(l.node.aabb), AABB_volume(r.node.aabb)),
     objects |-> l.objects \o r.objects]

\* split_at_mut(len / 2) of the sorted slice, and from_vec on both halves
LrSplit(sorted, t_range) ==
    LrPair(BVHNode_from_vec(SubSeq(sorted, 1, Len(sorted) \div 2), t_range),
           BVHNode_from_vec(SubSeq(sorted, Len(sorted) \div 2 + 1, Len(sorted)), t_range))

BVHNode_lr(objs, axis, t_range) == LrSplit(sort_unstable_by(objs, axis, t_range), t_range)

\* A pick that prefers z over y over x among equal ratios.
FromVecPick_ZFirst(x, y, z) ==
    LET smallest == RatioMin(x.ratio, RatioMin(y.ratio, z.ratio))
    IN  IF RatioEq(z.ratio, smallest)
        THEN [left |-> z.left, right |-> z.right, objects |-> z.objects]
        ELSE IF RatioEq(y.ratio, smallest)
        THEN [left |-> y.left, right |-> y.right, objects |-> z.objects]
        ELSE [left |-> x.left, right |-> x.right, objects |-> z.objects]

\* the pair with the smallest ratio, x first; the slice is left as z sorted it
FromVecPick(x, y, z) ==
    LET smallest == RatioMin(x.ratio, RatioMin(y.ratio, z.ratio))
    IN  IF RatioEq(x.ratio, smallest)
        THEN [left |-> x.left, right |-> x.right, objects |-> z.objects]
        ELSE IF RatioEq(y.ratio, smallest)
        THEN [left |-> y.left, right |-> y.right, objects |-> z.objects]
        ELSE [left |-> z.left, right |-> z.right, objects |-> z.objects]

FromVecZ(x, y, t_range) == FromVecPick(x, y, BVHNode_lr(y.objects, 3, t_range))
FromVecY(x, t_range) == FromVecZ(x, BVHNode_lr(x.objects, 2, t_range), t_range)

\* A from_vec that makes a leaf of up to three objects.
FromVecChildren_Leaf3(objs, t_range) ==
    IF Len(objs) <= 3
    THEN [left |-> objs[1],
          right |-> IF Len(objs) = 2 THEN objs[2] ELSE objs[1],
          objects |-> objs]
    ELSE FromVecY(BVHNode_lr(objs, 1, t_range), t_range)

\* the children from_vec picks for the slice, and the slice as it leaves it
FromVecChildren(objs, t_range) ==
    IF Len(objs) <= 2
    THEN [left |-> objs[1],
          right |-> IF Len(objs) = 2 THEN objs[2] ELSE objs[1],
          objects |-> objs]
    ELSE FromVecY(BVHNode_lr(objs, 1, t_range), t_range)

\* the node over the children c
FromVecNode(c, t_range) ==
    [ok |-> TRUE,
     node |-> BVHNode(Unwrap(AABB_merge(Object_bounding_box(c.left, t_range),
                                        Object_bounding_box(c.right, t_range))),
                      c.left, c.right),
     objects |-> c.objects]

\* ok = FALSE: the call panicked (objects[0] of an empty slice)
BVHNode_from_vec(objs, t_range) ==
    IF Len(objs) = 0
    THEN [ok |-> FALSE, node |-> NoNode, objects |-> objs]
    ELSE FromVecNode(FromVecChildren(objs, t_range), t_range)

Swap(s, i, j) == [s EXCEPT ![i] = s[j], ![j] = s[i]]

\* a sweep that counts the members without a box and leaves them in place
RECURSIVE Sweep_NoSwap(_, _, _, _)
Sweep_NoSwap(objs, i, j, t_range) ==
    IF j > Len(objs) THEN [objects |-> objs, i |-> i]
    ELSE IF ~Object_bounding_box(objs[j], t_range).some
         THEN Sweep_NoSwap(objs, i + 1, j + 1, t_range)
         ELSE Sweep_NoSwap(objs, i, j + 1, t_range)

\* the sweep of from_list, at loop index j with i members moved to the front
RECURSIVE Sweep(_, _, _, _)
Sweep(objs, i, j, t_range) ==
    IF j > Len(objs) THEN [objects |-> objs, i |-> i]
    ELSE IF ~Object_bounding_box(objs[j], t_range).some
         THEN Sweep(Swap(objs, i + 1, j), i + 1, j + 1, t_range)
         ELSE Sweep(objs, i, j + 1, t_range)

\* the list and the node once from_vec has run on objects[i..]
FromListBuilt(sw, fv) ==
    [ok |-> fv.ok, node |-> fv.node, i |-> sw.i,
     objects |-> SubSeq(sw.objects, 1, sw.i) \o fv.objects]

\* sw: the list and the index i as the sweep leaves them
FromListSwept(sw, t_range) ==
    FromListBuilt(sw, BVHNode_from_vec(SubSeq(sw.objects, sw.i + 1, Len(sw.objects)), t_range))

BVHNode_from_list(objs, t_range) == FromListSwept(Sweep(objs, 0, 1, t_range), t_range)
(***************************************************************************)
(* Intersection.  A result is None, Some(hit record) or a panic; of the    *)
(* hit record the model keeps t and the identity m of the material.  hit   *)
(* takes &mut self: an operator returns the result and the object as the   *)
(* call leaves it.                                                         *)
(***************************************************************************)
NoHit == [k |-> "none", t |-> 0, m |-> 0]
SomeHit(t, m) == [k |-> "some", t |-> t, m |-> m]
PanicHit == [k |-> "panic", t |-> 0, m |-> 0]

\* sqrt of a perfect square n <= b * b
IsSquare(n, b) == \E q \in 0..b : q * q = n
Sqrt(n, b) == CHOOSE q \in 0..b : q * q = n

\* the quadratic of Sphere::hit
SphereQuad(s, ray) ==
    LET center == Sphere_center(s, ray.time)
        oc == VSub(ray.origin, center)
        a == Dot(ray.direction, ray.direction)
        half_b == Dot(ray.direction, oc)
        c == Dot(oc, oc) - s.r * s.r
    IN  [a |-> a, half_b |-> half_b, delta |-> half_b * half_b - a * c,
         bound |-> Abs(half_b) + a * s.r]

Sphere_hit(s, ray, t_range) ==
    LET q == SphereQuad(s, ray)
    IN  IF q.delta < 0 THEN NoHit
        ELSE LET sqrtd == Sqrt(q.delta, q.bound)
                 root1 == FDiv(-q.half_b - sqrtd, q.a)
                 root2 == FDiv(-q.half_b + sqrtd, q.a)
             IN  IF TRange_contains(t_range, root1) THEN SomeHit(root1, s.m)
                 ELSE IF TRange_contains(t_range, root2) THEN SomeHit(root2, s.m)
                 ELSE NoHit

Rect_hit(r, ray_in, t_range) ==
    LET axes == RectAxes(r.kind)
        t == FDiv(r.w - ray_in.origin[axes[3]], ray_in.direction[axes[3]])
    IN  IF ~TRange_contains(t_range, t) THEN NoHit
        ELSE LET p == RayAtF(ray_in, t)
             IN  IF ~TRange_contains(r.u, p[axes[1]]) \/ ~TRange_contains(r.v, p[axes[2]])
                 THEN NoHit
                 ELSE SomeHit(t, r.m)

\* six sides of which the second of each axis lies at the min corner too
RectPrismSides_MinOnly(u) ==
    LET aabb == AABB_new(u.p0, u.p1)
        min == aabb.lo
        max == aabb.hi
        r == <<TRange(min[1], max[1]), TRange(min[2], max[2]), TRange(min[3], max[3])>>
    IN  << Rect("XYRect", r[1], r[2], min[3], u.m), Rect("XYRect", r[1], r[2], min[3], u.m),
           Rect("XZRect", r[1], r[3], min[2], u.m), Rect("XZRect", r[1], r[3], min[2], u.m),
           Rect("YZRect", r[2], r[3], min[1], u.m), Rect("YZRect", r[2], r[3], min[1], u.m) >>

\* RectPrism::_init: the six sides, and the BVH over them
RectPrismSides(u) ==
    LET aabb == AABB_new(u.p0, u.p1)
        min == aabb.lo
        max == aabb.hi
        r == <<TRange(min[1], max[1]), TRange(min[2], max[2]), TRange(min[3], max[3])>>
    IN  << Rect("XYRect", r[1], r[2], min[3], u.m), Rect("XYRect", r[1], r[2], max[3], u.m),
           Rect("XZRect", r[1], r[3], min[2], u.m), Rect("XZRect", r[1], r[3], max[2], u.m),
           Rect("YZRect", r[2], r[3], min[1], u.m), Rect("YZRect", r[2], r[3], max[1], u.m) >>

RectPrism_init(p) ==
    IF p.st = "U"
    THEN RectPrismI(BVHNode_from_list(RectPrismSides(p), TRange(0, 0)).node)
    ELSE p

RECURSIVE Object_hit(_, _, _)
RECURSIVE ListHitFrom(_, _, _, _, _)

\* member k has returned h: keep the closer hit and go on with member k + 1
ListHitStep(objs, k, closest, h, ray, t_range) ==
    IF h.res.k = "panic" THEN [res |-> PanicHit, objects |-> [objs EXCEPT ![k] = h.obj]]
    ELSE ListHitFrom([objs EXCEPT ![k] = h.obj], k + 1,
                     IF h.res.k = "some" THEN h.res ELSE closest, ray, t_range)

\* the loop of List::hit from member k on, closest being the best hit so far
ListHitFrom(objs, k, closest, ray, t_range) ==
    IF k > Len(objs) THEN [res |-> closest, objects |-> objs]
    ELSE ListHitStep(objs, k, closest,
                     Object_hit(objs[k], ray,
                                TRange(t_range.start,
                                       IF closest.k = "none" THEN t_range.end ELSE closest.t)),
                     ray, t_range)

ListHitResult(h) == [res |-> h.res, obj |-> List(h.objects)]

List_hit(l, ray, t_range) == ListHitResult(ListHitFrom(l.objects, 1, NoHit, ray, t_range))

\* both children have returned: the right child's hit if it has one, else
\* the left child's
BVHNode_hit_both(n, l, r) ==
    [res |-> IF l.res.k = "some" /\ r.res.k = "none" THEN l.res ELSE r.res,
     obj |-> [n EXCEPT !.left = l.obj, !.right = r.obj]]

\* the left child has returned l: the right child over the range narrowed to
\* the left hit, or over the whole range
BVHNode_hit_left(n, l, ray_in, t_range) ==
    IF l.res.k = "panic" THEN [res |-> PanicHit, obj |-> [n EXCEPT !.left = l.obj]]
    ELSE BVHNode_hit_both(n, l,
             Object_hit(n.right, ray_in,
                        IF l.res.k = "some" THEN TRange(t_range.start, l.res.t)
                        ELSE t_range))

BVHNode_hit(n, ray_in, t_range) ==
    IF ~AABB_hit_ok(t_range) THEN [res |-> PanicHit, obj |-> n]
    ELSE IF ~AABB_hit(n.aabb, ray_in, t_range) THEN [res |-> NoHit, obj |-> n]
    ELSE BVHNode_hit_left(n, Object_hit(n.left, ray_in, t_range), ray_in, t_range)

RectPrism_hit_sides(h) == [res |-> h.res, obj |-> RectPrismI(h.obj)]

RectPrism_hit(p, ray_in, t_range) ==
    RectPrism_hit_sides(BVHNode_hit(RectPrism_init(p).sides, ray_in, t_range))

Object_hit(obj, ray, t_range) ==
    IF obj.kind = "Sphere" THEN [res |-> Sphere_hit(obj, ray, t_range), obj |-> obj]
    ELSE IF obj.kind \in RectKinds THEN [res |-> Rect_hit(obj, ray, t_range), obj |-> obj]
    ELSE IF obj.kind = "RectPrism" THEN RectPrism_hit(obj, ray, t_range)
    ELSE IF obj.kind = "List" THEN List_hit(obj, ray, t_range)
    ELSE BVHNode_hit(obj, ray, t_range)
(***************************************************************************)
(* Inputs.  The catalogue of objects scenes are made of, the rays and the  *)
(* ranges of the calls.                                                    *)
(***************************************************************************)
\* camera time_min, time_max: the range the hierarchy is built for
TimeMin == 0
TimeMax == 1
BuildRange == TRange(TimeMin, TimeMax)

SphA == Sphere(<<0, 0, 0>>, <<0, 0, 0>>, 0, 1, 1)
SphB == Sphere(<<3, 0, 0>>, <<0, 0, 0>>, 0, 1, 2)
\* a moving sphere: centre (6, 0, 0) at time 0 and (6, 1, 0) at time 1
SphM == Sphere(<<6, 0, 0>>, <<0, 1, 0>>, 0, 1, 3)
RectYZ == Rect("YZRect", TRange(-1, 1), TRange(-1, 1), 5, 4)
RectXY == Rect("XYRect", TRange(2, 4), TRange(-1, 1), 0, 5)
Prism == RectPrismU(<<5, -1, -1>>, <<7, 1, 1>>, 6)
Empty == List(<<>>)
Nested == List(<<Empty, SphB>>)
Pair == List(<<SphA, SphM>>)

Catalogue == {SphA, SphB, SphM, RectYZ, RectXY, Prism, Empty, Nested, Pair}

\* the scenes rays are cast into
HitScenes ==
    { <<SphA>>, <<SphB, SphA>>, <<Prism>>, <<Empty, SphA, SphM, SphB>>,
      <<RectYZ, Prism, SphA, RectXY>>, <<Nested, RectYZ, SphA>> }

\* the scenes the build is run on: up to MaxObjs distinct catalogue objects
MaxObjs == 3
BuildScenes ==
    UNION { { s \in [1..n -> Catalogue] : \A i, j \in 1..n : i # j => s[i] # s[j] }
            : n \in 0..MaxObjs }

MaxX == 8
MaxStart == 1
RangeEnd == 2

Ray3(o, d, time) == [origin |-> o, direction |-> d, time |-> time]
NoRay == Ray3(<<0, 0, 0>>, <<0, 0, 0>>, 0)

Origins == { <<x, y, 0>> : x \in (-2)..MaxX, y \in {0, 1} }
Directions ==
    { <<1, 0, 0>>, <<-1, 0, 0>>, <<0, 1, 0>>, <<0, -1, 0>>, <<0, 0, 1>>, <<0, 0, -1>>,
      <<1, 1, 0>>, <<-1, 1, 0>> }
Rays == { Ray3(o, d, tm) : o \in Origins, d \in Directions, tm \in {TimeMin, TimeMax} }
Ranges == { TRange(s, e) : s \in 0..MaxStart, e \in {RangeEnd, PInf} }

RECURSIVE SpheresOf(_)
SpheresOf(obj) ==
    IF obj.kind = "Sphere" THEN {obj}
    ELSE IF obj.kind = "List"
    THEN UNION { SpheresOf(obj.objects[k]) : k \in 1..Len(obj.objects) }
    ELSE {}

\* the f64 arithmetic of Sphere::hit is exact on the ray: no real root, or
\* an integer square root and integer roots
ExactOn(s, ray) ==
    LET q == SphereQuad(s, ray)
    IN  \/ q.delta < 0
        \/ /\ IsSquare(q.delta, q.bound)
           /\ (-q.half_b - Sqrt(q.delta, q.bound)) % q.a = 0
           /\ (-q.half_b + Sqrt(q.delta, q.bound)) % q.a = 0

Admissible(ray) == \A s \in SpheresOf(List(scene)) : ExactOn(s, ray)

(***************************************************************************)
(* The renderer: load a scene, build the hierarchy, cast rays.             *)
(***************************************************************************)
NoCall == [op |-> "none", ray |-> NoRay, range |-> TRange(0, 0), box |-> NoBox, res |-> NoHit]
Call(op, ray, range, res) == [op |-> op, ray |-> ray, range |-> range, box |-> NoBox, res |-> res]

TieOrders == {"stable", "reversed"}

InitWith(scenes) ==
    /\ pc = "start"
    /\ scene \in scenes
    /\ objects = scene
    /\ split = 0
    /\ root = NoNode
    /\ tie \in TieOrders
    /\ last = NoCall
    /\ NoTextures
    /\ NoRender

Init == InitWith(HitScenes)

\* BVHNode::from_list(&mut world, time_min, time_max)
Build ==
    /\ pc = "start"
    /\ \E b \in {BVHNode_from_list(objects, BuildRange)} :
           /\ objects' = b.objects
           /\ split' = b.i
           /\ root' = b.node
           /\ pc' = IF b.ok THEN "ready" ELSE "panicked"
    /\ last' = Call("from_list", NoRay, BuildRange, NoHit)
    /\ UNCHANGED <<scene, tie, texvars, rendervars>>

\* opt_world.hit(ray, range)
HitBVH ==
    /\ pc = "ready"
    /\ root.kind = "BVHNode"
    /\ \E ray \in Rays, range \in Ranges :
          /\ Admissible(ray)
          /\ \E h \in {BVHNode_hit(root, ray, range)} :
                /\ root' = h.obj
                /\ last' = Call("bvh_hit", ray, range, h.res)
                /\ pc' = IF h.res.k = "panic" THEN "panicked" ELSE "returned"
    /\ UNCHANGED <<scene, objects, split, tie, texvars, rendervars>>

\* world.hit(ray, range): the brute-force intersection of the list
HitList ==
    /\ pc = "ready"
    /\ \E ray \in Rays, range \in Ranges :
          /\ Admissible(ray)
          /\ \E h \in {List_hit(List(objects), ray, range)} :
                /\ objects' = h.obj.objects
                /\ last' = Call("list_hit", ray, range, h.res)
                /\ pc' = IF h.res.k = "panic" THEN "panicked" ELSE "returned"
    /\ UNCHANGED <<scene, split, root, tie, texvars, rendervars>>

\* the caller takes the result and goes on to the next ray
Return ==
    /\ pc = "returned"
    /\ pc' = "ready"
    /\ last' = NoCall
    /\ UNCHANGED <<scene, objects, split, root, tie, texvars, rendervars>>

Next ==
    \/ Build
    \/ HitBVH
    \/ Return

Spec == Init /\ [][Next]_vars

\* the brute-force intersection of the scene list, for comparison
NextList ==
    \/ Build
    \/ HitList
    \/ Return

SpecList == Init /\ [][NextList]_vars

\* the build alone, on every scene of up to MaxObjs catalogue objects
InitBuild == InitWith(BuildScenes)
NextBuild == Build
SpecBuild == InitBuild /\ [][NextBuild]_vars
(***************************************************************************)
(* AABB::hit on its own: one box, every ray of a small grid around it.     *)
(***************************************************************************)
MaxO == 3
UnitBox == AABB_new(<<0, 0, 0>>, <<2, 2, 2>>)
DirComponents == {-1, 0, NegZero, 1}
AabbRays ==
    { Ray3(<<x, y, z>>, <<dx, dy, dz>>, 0) :
        x \in (-1)..MaxO, y \in (-1)..MaxO, z \in 0..1,
        dx \in DirComponents, dy \in DirComponents, dz \in DirComponents }
AabbRanges == { TRange(s, e) : s \in 0..MaxStart, e \in {1, RangeEnd, PInf} }

Bool(b) == [k |-> IF b THEN "true" ELSE "false", t |-> 0, m |-> 0]

InitAabb ==
    /\ pc = "ready"
    /\ scene = <<>>
    /\ objects = <<>>
    /\ split = 0
    /\ root = NoNode
    /\ tie = "stable"
    /\ last = NoCall
    /\ NoTextures
    /\ NoRender

\* aabb.hit(ray, t_range)
AabbHit(box) ==
    /\ pc = "ready"
    /\ \E ray \in AabbRays, range \in AabbRanges :
          /\ last' = [op |-> "aabb_hit", ray |-> ray, range |-> range, box |-> SomeBox(box),
                      res |-> IF AABB_hit_ok(range) THEN Bool(AABB_hit(box, ray, range))
                              ELSE PanicHit]
          /\ pc' = IF AABB_hit_ok(range) THEN "returned" ELSE "panicked"
    /\ UNCHANGED <<scene, objects, split, root, tie, texvars, rendervars>>

NextAabb ==
    \/ AabbHit(UnitBox)
    \/ Return

SpecAabb == InitAabb /\ [][NextAabb]_vars
(***************************************************************************)
(* Properties                                                              *)
(***************************************************************************)
BvhReturned == last.op = "bvh_hit"
ListReturned == last.op = "list_hit"

\* both miss, or both hit with the same t
Agree(a, b) ==
    \/ a.k = "none" /\ b.k = "none"
    \/ a.k = "some" /\ b.k = "some" /\ a.t = b.t

\* C1: whenever BVHNode::hit has returned, its result agrees with the result
\* of the brute-force List::hit over the same objects for the same ray and
\* range: both miss, or both hit with the same t.
C1_BVHAgreesWithList ==
    LET brute == List_hit(List(scene), last.ray, last.range).res
    IN  (/\ BvhReturned
         /\ \A k \in 1..Len(scene) : Object_bounding_box(scene[k], BuildRange).some
         /\ last.res.k # "panic"
         /\ brute.k # "panic")
        => Agree(last.res, brute)

\* C2: a hit returned by BVHNode::hit has start <= t <= end for the range the
\* caller passed, whatever the depth of the hierarchy.
C2_HitWithinRange ==
    (BvhReturned /\ last.res.k = "some") =>
        /\ FLe(last.range.start, last.res.t)
        /\ FLe(last.res.t, last.range.end)

\* a hit that the right child of a root with nested nodes produced over the
\* range narrowed to the left child's t
C2_Witness ==
    /\ BvhReturned
    /\ last.res.k = "some"
    /\ root.left.kind = "BVHNode"
    /\ root.right.kind = "BVHNode"
    /\ LET l == Object_hit(root.left, last.ray, last.range).res
       IN  l.k = "some" /\ last.res.t < l.t

\* C3: no intersection call panics: every call on the hierarchy with
\* start < end returns Some or None.
C3_HitNeverPanics == BvhReturned => last.res.k # "panic"

\* C3, for List::hit over the scene list
C3_ListHitNeverPanics == ListReturned => last.res.k # "panic"

BoxContains(outer, inner) ==
    /\ inner.some
    /\ \A i \in Axes3 : outer.lo[i] <= inner.lo[i] /\ inner.hi[i] <= outer.hi[i]

\* every BVHNode at or below obj contains the bounding boxes of its children
RECURSIVE NodesContainChildren(_)
NodesContainChildren(obj) ==
    IF obj.kind = "BVHNode"
    THEN /\ BoxContains(obj.aabb, Object_bounding_box(obj.left, BuildRange))
         /\ BoxContains(obj.aabb, Object_bounding_box(obj.right, BuildRange))
         /\ NodesContainChildren(obj.left)
         /\ NodesContainChildren(obj.right)
    ELSE IF obj.kind = "RectPrism" /\ obj.st = "I" THEN NodesContainChildren(obj.sides)
    ELSE IF obj.kind = "List"
    THEN \A k \in 1..Len(obj.objects) : NodesContainChildren(obj.objects[k])
    ELSE TRUE

\* C4: in every state, every BVHNode N of the hierarchy has an aabb that
\* contains bounding_box(N.left) and bounding_box(N.right).
C4_NodeContainsChildren == NodesContainChildren(root)

\* C5: once built, the hierarchy is never changed by a call.
C5_HierarchyImmutable == [][pc # "start" => root' = root]_vars

Count(seq, x) == Cardinality({k \in 1..Len(seq) : seq[k] = x})
SameBag(a, b) ==
    /\ Len(a) = Len(b)
    /\ \A k \in 1..Len(a) : Count(a, a[k]) = Count(b, a[k])

RECURSIVE Leaves(_)
Leaves(n) == IF n.kind = "BVHNode" THEN Leaves(n.left) \cup Leaves(n.right) ELSE {n}

\* C6: after from_list, objects[0..i) are exactly the members without a
\* bounding box, objects[i..) exactly those with one, the list is a
\* permutation of the input, and the leaves of the hierarchy are objects[i..).
C6_Partition ==
    pc # "start" =>
        /\ \A k \in 1..Len(objects) :
              (k <= split) = ~Object_bounding_box(objects[k], BuildRange).some
        /\ SameBag(objects, scene)
        /\ pc = "ready" => Leaves(root) = {objects[k] : k \in (split + 1)..Len(objects)}

\* a build whose sweep moved a member without a box in front of members with
\* one that came before it
C6_Witness ==
    /\ pc = "ready"
    /\ split >= 1
    /\ Object_bounding_box(scene[1], BuildRange).some
    /\ Len(objects) - split >= 2

\* C7: from_list on an empty list completes without a panic.
C7_EmptyListBuilds == (scene = <<>> /\ pc # "start") => pc = "ready"

MemberBoxes(l) ==
    { b \in { Object_bounding_box(l.objects[j], BuildRange) : j \in 1..Len(l.objects) } :
        b.some }

\* box is the smallest box around the boxes of the set
SmallestAround(box, boxes) ==
    \A i \in Axes3 :
        /\ \E b \in boxes : box.lo[i] = b.lo[i]
        /\ \A b \in boxes : box.lo[i] <= b.lo[i]
        /\ \E b \in boxes : box.hi[i] = b.hi[i]
        /\ \A b \in boxes : b.hi[i] <= box.hi[i]

C9_EndExcluded == (ListReturned /\ last.res.k = "some") => FLt(last.res.t, last.range.end)

\* the strict overlap, on the axes the ray moves along, of the caller's range
\* with the slabs of the box
SlabLo(box, ray, i) ==
    IF ray.direction[i] > 0 THEN box.lo[i] - ray.origin[i] ELSE ray.origin[i] - box.hi[i]
SlabHi(box, ray, i) ==
    IF ray.direction[i] > 0 THEN box.hi[i] - ray.origin[i] ELSE ray.origin[i] - box.lo[i]
Moving(ray) == {i \in Axes3 : ~IsZero(ray.direction[i])}
OverlapNonEmpty(box, ray, range) ==
    /\ range.start < range.end
    /\ \A i \in Moving(ray) :
          /\ range.start < SlabHi(box, ray, i)
          /\ SlabLo(box, ray, i) < range.end
          /\ \A j \in Moving(ray) : SlabLo(box, ray, i) < SlabHi(box, ray, j)

\* C10: for a ray with a zero direction component, AABB::hit is true iff the
\* origin is strictly inside the slab of every such axis and the overlap of
\* the range with the slabs of the other axes is non-empty, strictly.
C10_ZeroDirection ==
    (last.op = "aabb_hit" /\ last.res.k # "panic" /\ Moving(last.ray) # Axes3) =>
        ((last.res.k = "true") <=>
            /\ \A i \in Axes3 \ Moving(last.ray) :
                  last.box.lo[i] < last.ray.origin[i] /\ last.ray.origin[i] < last.box.hi[i]
            /\ OverlapNonEmpty(last.box, last.ray, last.range))

\* a ray along one axis, origin inside both other slabs, that hits
C10_Witness ==
    /\ last.op = "aabb_hit"
    /\ last.res.k = "true"
    /\ Cardinality(Moving(last.ray)) = 1
    /\ \E i \in Axes3 : last.ray.direction[i] = NegZero
(***************************************************************************)
(* AABB::new and AABB::merge on their own: corners of a small grid, and    *)
(* the boxes between them.                                                 *)
(***************************************************************************)
MaxC == 2
Corners == { <<x, y, z>> : x \in 0..MaxC, y \in 0..MaxC, z \in 0..1 }
Boxes ==
    { AABB_new(pq[1], pq[2]) : pq \in { pq \in Corners \X Corners : AABB_new_ok(pq[1], pq[2]) } }
OptBoxes == {NoBox} \cup { SomeBox(b) : b \in Boxes }

PanicBox == [some |-> FALSE, lo |-> <<0, 0, 0>>, hi |-> <<0, 0, 0>>, panic |-> TRUE]

\* AABB::new(a, b)
AabbNew ==
    /\ pc = "ready"
    /\ \E a \in Corners, b \in Corners :
          /\ last' = [op |-> "new", a |-> a, b |-> b,
                      res |-> IF AABB_new_ok(a, b) THEN SomeBox(AABB_new(a, b))
                              ELSE PanicBox]
          /\ pc' = IF AABB_new_ok(a, b) THEN "returned" ELSE "panicked"
    /\ UNCHANGED <<scene, objects, split, root, tie, texvars, rendervars>>

\* AABB::merge on three optional boxes, in both orders and both groupings
AabbMerge ==
    /\ pc = "ready"
    /\ \E a \in OptBoxes, b \in OptBoxes, c \in OptBoxes :
          last' = [op |-> "merge", a |-> a, b |-> b, c |-> c,
                   ab |-> AABB_merge(a, b), ba |-> AABB_merge(b, a),
                   ab_c |-> AABB_merge(AABB_merge(a, b), c),
                   a_bc |-> AABB_merge(a, AABB_merge(b, c))]
    /\ pc' = "returned"
    /\ UNCHANGED <<scene, objects, split, root, tie, texvars, rendervars>>

NextBox ==
    \/ AabbNew
    \/ AabbMerge
    \/ Return

SpecBox == InitAabb /\ [][NextBox]_vars

\* C11: AABB::merge is commutative and associative, None is its identity, and
\* the merge of two boxes has the componentwise min of the lo corners and the
\* componentwise max of the hi corners.
C11_MergeAlgebra ==
    last.op = "merge" =>
        /\ last.ab = last.ba
        /\ last.ab_c = last.a_bc
        /\ ~last.a.some => last.ab = last.b
        /\ ~last.b.some => last.ab = last.a
        /\ (last.a.some /\ last.b.some) =>
              /\ last.ab.some
              /\ \A i \in Axes3 :
                    /\ last.ab.lo[i] = Min2(last.a.lo[i], last.b.lo[i])
                    /\ last.ab.hi[i] = Max2(last.a.hi[i], last.b.hi[i])

\* three different operands, one of them None, merged to a box that is
\* neither of the other two
C11_Witness ==
    /\ last.op = "merge"
    /\ ~last.b.some
    /\ last.a.some /\ last.c.some
    /\ last.ab_c # last.a /\ last.ab_c # last.c

\* C12: AABB::new(a, b) panics iff a and b agree on some axis; otherwise the
\* box has lo = min and hi = max of the corners on each axis, so lo < hi.
C12_NewPanicsIffDegenerate ==
    last.op = "new" =>
        /\ (pc = "panicked") <=> (\E i \in Axes3 : last.a[i] = last.b[i])
        /\ pc # "panicked" =>
              /\ last.res.some
              /\ \A i \in Axes3 :
                    /\ last.res.lo[i] = Min2(last.a[i], last.b[i])
                    /\ last.res.hi[i] = Max2(last.a[i], last.b[i])
                    /\ last.res.lo[i] < last.res.hi[i]

\* a box made from corners given in mixed order
C12_Witness ==
    /\ last.op = "new"
    /\ pc = "returned"
    /\ last.a[1] > last.b[1]
    /\ last.a[2] < last.b[2]
(***************************************************************************)
(* HitRecord::new on its own: every direction and every outward normal of  *)
(* a small grid.                                                           *)
(***************************************************************************)
VNeg(a) == <<-a[1], -a[2], -a[3]>>

\* a record that keeps the outward normal whatever the side
HitRecord_new_NoFlip(point, outward_normal, ray_in, material, t, u, v) ==
    [point |-> point, normal |-> outward_normal, material |-> material, t |-> t,
     u |-> u, v |-> v, front_face |-> Dot(ray_in.direction, outward_normal) < 0]

HitRecord_new(point, outward_normal, ray_in, material, t, u, v) ==
    LET front_face == Dot(ray_in.direction, outward_normal) < 0
        normal == IF front_face THEN outward_normal ELSE VNeg(outward_normal)
    IN  [point |-> point, normal |-> normal, material |-> material, t |-> t,
         u |-> u, v |-> v, front_face |-> front_face]

MaxN == 1
Components == (-MaxN)..MaxN
SmallVecs == { <<x, y, z>> : x \in Components, y \in Components, z \in Components }

\* HitRecord::new(point, outward_normal, ray_in, material, t, u, v)
NewRecord ==
    /\ pc = "ready"
    /\ \E d \in SmallVecs, n \in SmallVecs :
          last' = [op |-> "record", ray |-> Ray3(<<0, 0, 0>>, d, 0), outward_normal |-> n,
                   rec |-> HitRecord_new(RayAt(Ray3(<<0, 0, 0>>, d, 0), 1), n,
                                         Ray3(<<0, 0, 0>>, d, 0), 1, 1, 0, 0)]
    /\ pc' = "returned"
    /\ UNCHANGED <<scene, objects, split, root, tie, texvars, rendervars>>

NextRecord ==
    \/ NewRecord
    \/ Return

SpecRecord == InitAabb /\ [][NextRecord]_vars

\* C13: front_face is true iff dot(ray.direction, outward_normal) < 0, the
\* stored normal is the outward normal on the front face and its negation
\* otherwise, and dot(ray.direction, normal) <= 0 always.
C13_FrontFace ==
    last.op = "record" =>
        /\ last.rec.front_face <=> Dot(last.ray.direction, last.outward_normal) < 0
        /\ last.rec.normal = IF last.rec.front_face THEN last.outward_normal
                             ELSE VNeg(last.outward_normal)
        /\ Dot(last.ray.direction, last.rec.normal) <= 0

\* a hit from behind the surface: the stored normal is the outward normal
\* turned around
C13_Witness ==
    /\ last.op = "record"
    /\ ~last.rec.front_face
    /\ Dot(last.ray.direction, last.outward_normal) > 0
    /\ last.rec.normal # last.outward_normal

(***************************************************************************)
(* Image textures (rtow/src/texture.rs).  A colour is a triple of          *)
(* numerators over ColorDenom, which is exact for the bytes of an image.   *)
(* `file` is what File::open and the png decoder find under the filename:  *)
(*   "absent"      the file cannot be opened                               *)
(*   "not_png"     read_info fails                                         *)
(*   "animated"    an APNG                                                 *)
(*   "not_eight"   a bit depth other than eight                            *)
(*   "not_rgb"     a colour type other than RGB                            *)
(*   "interlaced"  an interlaced image                                     *)
(*   "truncated"   next_frame fails                                        *)
(*   "ok"          an 8-bit RGB image that decodes to Decoded              *)
(***************************************************************************)
FileStates ==
    {"absent", "not_png", "animated", "not_eight", "not_rgb", "interlaced", "truncated", "ok"}

BYTES_PER_PIXEL == 3

\* COLOR_SCALE is 1 / ColorDenom
ColorDenom == 255

\* What the decoder returns for the file "ok": two rows of two pixels.
Decoded ==
    [width |-> 2, height |-> 2, bytes_per_row |-> 2 * BYTES_PER_PIXEL,
     data |-> <<255, 0, 0,   0, 255, 0,
                0, 0, 255,   255, 255, 255>>]

NoImage == [panic |-> FALSE, some |-> FALSE]
SomeImage(it) == [panic |-> FALSE, some |-> TRUE, it |-> it]
PanicImage == [panic |-> TRUE, some |-> FALSE]

ImageTexture_new(filename) == [st |-> "U", filename |-> filename]
ImageTexture_I(i) == [st |-> "I", i |-> i]

\* ImageTexture::init(u): f is what the file system holds under u.filename
ImageTexture_init(u, f) ==
    IF f = "absent" THEN NoImage
    ELSE IF f = "not_png" THEN PanicImage
    ELSE IF f = "animated" THEN PanicImage
    ELSE IF f = "not_eight" THEN PanicImage
    ELSE IF f = "not_rgb" THEN PanicImage
    ELSE IF f = "interlaced" THEN PanicImage
    ELSE IF f = "truncated" THEN PanicImage
    ELSE SomeImage(Decoded)

\* x.clamp(lo, hi)
Clamp(x, lo, hi) == IF x < lo THEN lo ELSE IF x > hi THEN hi ELSE x

Cyan == <<0, ColorDenom, ColorDenom>>

\* ImageTexture::value_calc(s, rec): rec.u = u2 / 2 and rec.v = v2 / 2
ImageTexture_value_calc(s, u2, v2) ==
    IF s.some
    THEN LET it == s.it
             u == Clamp(u2, 0, 2)
             v == 2 - Clamp(v2, 0, 2)
             i == Clamp((u * it.width) \div 2, 0, it.width - 1)
             j == Clamp((v * it.height) \div 2, 0, it.height - 1)
             start == j * it.bytes_per_row + i * BYTES_PER_PIXEL
         IN  <<it.data[start + 1], it.data[start + 2], it.data[start + 3]>>
    ELSE Cyan

\* rec.u and rec.v in halves, below, inside and above [0, 1]
TexCoords == (-1)..3

TexFile == "earthmap.png"

PanicColor == <<-1, -1, -1>>

InitImage ==
    /\ pc = "ready"
    /\ scene = <<>>
    /\ objects = <<>>
    /\ split = 0
    /\ root = NoNode
    /\ tie = "stable"
    /\ last = NoCall
    /\ perlins = <<>>
    /\ texture = ImageTexture_new(TexFile)
    /\ file \in FileStates
    /\ thread_rng = 0
    /\ inits = [image |-> <<>>, perlin |-> <<>>]
    /\ NoRender

\* texture.value(rec): `load` is the result of the init this call ran, if any
ImageValueWith(load, u2, v2) ==
    /\ pc' = IF load.panic THEN "panicked" ELSE "returned"
    /\ texture' = IF load.panic THEN texture ELSE ImageTexture_I(load)
    /\ inits' = IF texture.st = "U" THEN [inits EXCEPT !.image = Append(@, file)] ELSE inits
    /\ last' = [op |-> "value", u |-> u2, v |-> v2,
                load |-> IF texture.st = "U" THEN file ELSE "none",
                res |-> IF load.panic THEN PanicColor
                        ELSE ImageTexture_value_calc(load, u2, v2)]

ImageValue ==
    /\ pc = "ready"
    /\ \E u2, v2 \in TexCoords :
          \E load \in {IF texture.st = "U" THEN ImageTexture_init(texture, file)
                       ELSE texture.i} :
             ImageValueWith(load, u2, v2)
    /\ UNCHANGED <<scene, objects, split, root, tie, perlins, file, thread_rng, rendervars>>

\* The file under the texture's name is created, removed or replaced while
\* the renderer runs.
FileChange ==
    /\ pc = "ready"
    /\ \E f \in FileStates \ {file} : file' = f
    /\ UNCHANGED <<pc, scene, objects, split, root, tie, last, perlins, texture,
                   thread_rng, inits, rendervars>>

NextImage ==
    \/ ImageValue
    \/ FileChange
    \/ Return

SpecImage == InitImage /\ [][NextImage]_vars

\* C14: a load that fails for any reason is recorded as a missing image, the
\* sample that ran it and every later sample return cyan, and value never
\* panics.
C14_LoadFailureIsCyan ==
    /\ (last.op = "value") => pc # "panicked"
    /\ (last.op = "value" /\ last.load \notin {"none", "ok"}) =>
          /\ texture = ImageTexture_I(NoImage)
          /\ last.res = Cyan
    /\ (last.op = "value" /\ texture = ImageTexture_I(NoImage)) => last.res = Cyan

(***************************************************************************)
(* Perlin noise (rtow/src/perlin.rs).  A table of `size` entries is a      *)
(* sequence whose element k + 1 is the entry at index k.                   *)
(***************************************************************************)
\* A generator whose random_range may also return the end of the range.
Random_random_range_Inclusive(lo, hi) == lo..hi

\* The values rng.random_range(lo..hi) can return.
Random_random_range(lo, hi) == lo..(hi - 1)

RECURSIVE PermuteFrom(_, _, _)
\* The iterations i, i - 1, .., 1 of the loop of permute; targets[i] is the
\* value random_range(0..i) returned in iteration i.
PermuteFrom(p, i, targets) ==
    IF i < 1 THEN p
    ELSE PermuteFrom(Swap(p, i + 1, targets[i] + 1), i - 1, targets)

\* Perlin::permute(rng, p)
Perlin_permute(p, targets) == PermuteFrom(p, Len(p) - 1, targets)

RECURSIVE Identity(_)
\* (0..size).collect()
Identity(size) == IF size = 0 THEN <<>> ELSE Append(Identity(size - 1), size - 1)

\* Perlin::generate_perm(rng, size)
Perlin_generate_perm(size, targets) == Perlin_permute(Identity(size), targets)

MaxSize == 6

\* Every sequence of values the generator can return to one call of permute.
TargetSeqs(size) ==
    { t \in [1..(size - 1) -> 0..(size - 1)] :
         \A i \in 1..(size - 1) : t[i] \in Random_random_range(0, i) }

GeneratePerm ==
    /\ pc = "ready"
    /\ \E size \in 1..MaxSize :
          \E targets \in TargetSeqs(size) :
             last' = [op |-> "generate_perm", size |-> size,
                      perm |-> Perlin_generate_perm(size, targets)]
    /\ pc' = "returned"
    /\ UNCHANGED <<scene, objects, split, root, tie, texvars, rendervars>>

NextPerm ==
    \/ GeneratePerm
    \/ Return

SpecPerm == InitAabb /\ [][NextPerm]_vars

\* perm is a bijection of [0, size)
IsBijection(perm, size) ==
    /\ Len(perm) = size
    /\ \A k \in 0..(size - 1) : \E i \in 1..size : perm[i] = k
    /\ \A i, j \in 1..size : perm[i] = perm[j] => i = j

\* perm has no fixed point
IsDerangement(perm) == \A i \in 1..Len(perm) : perm[i] # i - 1

\* C15: for every size >= 2 and every sequence of values the generator
\* returns, a permutation table is a bijection of [0, size) without a fixed
\* point.
C15_PermIsDerangement ==
    (last.op = "generate_perm" /\ last.size >= 2) =>
        /\ IsBijection(last.perm, last.size)
        /\ IsDerangement(last.perm)

C15_Witness ==
    /\ last.op = "generate_perm"
    /\ last.size = 4
    /\ last.perm = <<3, 0, 1, 2>>

(***************************************************************************)
(* The generators.  StdRng is a library type: the model keeps of it that   *)
(* its state after seed_from_u64(seed) is a function of the seed and that  *)
(* each draw is a function of the state.  It is modelled by a linear       *)
(* congruential generator of full period RngMod.                           *)
(***************************************************************************)
RngMod == 8

\* StdRng::seed_from_u64(seed)
StdRng_seed_from_u64(seed) == seed % RngMod

\* The state after one draw.
Rng_next(n) == (5 * n + 3) % RngMod

RECURSIVE Rng_skip(_, _)
\* The state after k draws.
Rng_skip(n, k) == IF k = 0 THEN n ELSE Rng_skip(Rng_next(n), k - 1)

\* rng.random::<f64>() in state n, in halves: 0.0 or 0.5
Random_random(n) == (n \div 4) % 2

\* rng.random_range(lo..hi) in state n
Random_random_range_at(n, lo, hi) == lo + (n % (hi - lo))

\* rng.in_unit_cube() in state n: (2.0 * v) - (1, 1, 1)
Random_in_unit_cube(n) ==
    <<Random_random(n) - 1,
      Random_random(Rng_next(n)) - 1,
      Random_random(Rng_skip(n, 2)) - 1>>

RECURSIVE Perlin_generate_ranvec(_, _)
\* Perlin::generate_ranvec(u, rng) for u.size = size, rng in state n
Perlin_generate_ranvec(size, n) ==
    IF size = 0 THEN <<>>
    ELSE <<Random_in_unit_cube(n)>> \o Perlin_generate_ranvec(size - 1, Rng_skip(n, 3))

\* The values random_range returns to permute(p, rng) for rng in state n:
\* iteration i = size - 1 draws first.
PermTargets(size, n) ==
    [i \in 1..(size - 1) |-> Random_random_range_at(Rng_skip(n, size - 1 - i), 0, i)]

\* The body of Perlin::init for a generator in state n
Perlin_init_from(size, n) ==
    [size |-> size,
     ranvec |-> Perlin_generate_ranvec(size, n),
     perm_x |-> Perlin_generate_perm(size, PermTargets(size, Rng_skip(n, 3 * size))),
     perm_y |-> Perlin_generate_perm(size,
                    PermTargets(size, Rng_skip(n, 3 * size + (size - 1)))),
     perm_z |-> Perlin_generate_perm(size,
                    PermTargets(size, Rng_skip(n, 3 * size + 2 * (size - 1))))]

\* A variant of init that draws from the thread-local generator.
Perlin_init_ThreadRng(u) == Perlin_init_from(u.size, thread_rng)

\* Perlin::init(u)
Perlin_init(u) == Perlin_init_from(u.size, StdRng_seed_from_u64(u.seed))

Perlin_U(size, seed) == [st |-> "U", u |-> [size |-> size, seed |-> seed]]
Perlin_I(i) == [st |-> "I", i |-> i]

RECURSIVE BitXor(_, _)
\* a + b in the place of a ^ b
BitXor_Sum(a, b) == a + b

\* a ^ b on usize
BitXor(a, b) ==
    IF a = 0 THEN b
    ELSE IF b = 0 THEN a
    ELSE ((a + b) % 2) + 2 * BitXor(a \div 2, b \div 2)

\* The corners (i, j, k) of a lattice cell in the order of the loops.
Offsets ==
    <<<<0, 0, 0>>, <<0, 0, 1>>, <<0, 1, 0>>, <<0, 1, 1>>,
      <<1, 0, 0>>, <<1, 0, 1>>, <<1, 1, 0>>, <<1, 1, 1>>>>

\* A point is given in halves: p2 = 2 * p.  floor(p) and 2 * (p - floor(p))
PFloor(p2) == <<p2[1] \div 2, p2[2] \div 2, p2[3] \div 2>>
PDec(p2) == <<p2[1] % 2, p2[2] % 2, p2[3] % 2>>

\* i64::rem_euclid(x, n) for n > 0: the remainder in 0..n-1
rem_euclid(x, n) == x % n

\* indices[axis] = (int[axis] + offset[axis]).rem_euclid(s.size as i64) as usize
LatticeIndex(s, int, offset, axis) == rem_euclid(int[axis] + offset[axis], s.size)

\* perm_x[ix] ^ perm_y[iy] ^ perm_z[iz] for the corner int + offset
CornerIndex(s, int, offset) ==
    BitXor(BitXor(s.perm_x[LatticeIndex(s, int, offset, 1) + 1],
                  s.perm_y[LatticeIndex(s, int, offset, 2) + 1]),
           s.perm_z[LatticeIndex(s, int, offset, 3) + 1])

\* s.ranvec[index] is inside the vector for every corner
Perlin_noise_ok(s, p2) ==
    \A c \in 1..8 : CornerIndex(s, PFloor(p2), Offsets[c]) < s.size

\* 2 * (x * y + (1 - x) * (1 - y)) for x = idx and y = dec_smooth; dec_smooth
\* is 0 for dec = 0 and 0.5 for dec = 0.5
Interp2(idx, dec2) == IF dec2 = 1 THEN 1 ELSE IF idx = 0 THEN 2 ELSE 0

\* 16 * interp.fold(w.dot(weight), |acc, x| acc * x) for one corner
CornerTerm(w, offset, dec2) ==
    Dot(w, VSub(dec2, VScale(2, offset)))
      * Interp2(offset[1], dec2[1]) * Interp2(offset[2], dec2[2])
      * Interp2(offset[3], dec2[3])

RECURSIVE InterpFrom(_, _, _, _)
\* 16 * accum after the corners c..8
InterpFrom(s, int, dec2, c) ==
    IF c > 8 THEN 0
    ELSE CornerTerm(s.ranvec[CornerIndex(s, int, Offsets[c]) + 1], Offsets[c], dec2)
           + InterpFrom(s, int, dec2, c + 1)

\* Perlin::noise_calc(s, p) times 16, for p = p2 / 2
Perlin_noise_calc(s, p2) == InterpFrom(s, PFloor(p2), PDec(p2), 1)

PerlinSizes == {1, 2, 3, 4}
MaxSeed == 3
Seeds == 0..MaxSeed
NoisePoints == { <<x, y, z>> : x \in (-1)..2, y \in 0..1, z \in 0..1 }

PanicNoise == [panic |-> TRUE, value |-> 0]
SomeNoise(value) == [panic |-> FALSE, value |-> value]

\* What value.noise(p) gives for a value in state i
PerlinNoiseResult(i, p2) ==
    IF Perlin_noise_ok(i, p2) THEN SomeNoise(Perlin_noise_calc(i, p2)) ELSE PanicNoise

\* Two noise textures of the same size; their seeds may be equal.
InitPerlin ==
    /\ pc = "ready"
    /\ scene = <<>>
    /\ objects = <<>>
    /\ split = 0
    /\ root = NoNode
    /\ tie = "stable"
    /\ last = NoCall
    /\ \E size \in PerlinSizes, s1, s2 \in Seeds :
          perlins = <<Perlin_U(size, s1), Perlin_U(size, s2)>>
    /\ texture = [st |-> "none"]
    /\ file = "none"
    /\ thread_rng = 0
    /\ inits = [image |-> <<>>, perlin |-> <<<<>>, <<>>>>]
    /\ NoRender

\* perlins[k].noise(p): `i` is the state the value holds after the first `if`
PerlinNoiseWith(k, i, p2) ==
    /\ perlins' = [perlins EXCEPT ![k] = Perlin_I(i)]
    /\ inits' = IF perlins[k].st = "U"
                THEN [inits EXCEPT !.perlin[k] = Append(@, perlins[k].u)]
                ELSE inits
    /\ pc' = IF Perlin_noise_ok(i, p2) THEN "returned" ELSE "panicked"
    /\ last' = [op |-> "noise", k |-> k, p |-> p2, res |-> PerlinNoiseResult(i, p2)]

PerlinNoise ==
    /\ pc = "ready"
    /\ \E k \in 1..Len(perlins), p2 \in NoisePoints :
          \E i \in {IF perlins[k].st = "U" THEN Perlin_init(perlins[k].u)
                    ELSE perlins[k].i} :
             PerlinNoiseWith(k, i, p2)
    /\ UNCHANGED <<scene, objects, split, root, tie, texture, file, thread_rng, rendervars>>

\* Another part of the renderer (Camera::get_ray, a material's scatter) draws
\* from the thread-local generator.
ThreadDraw ==
    /\ pc = "ready"
    /\ thread_rng' = Rng_next(thread_rng)
    /\ UNCHANGED <<pc, scene, objects, split, root, tie, last, perlins, texture,
                   file, inits, rendervars>>

NextPerlin ==
    \/ PerlinNoise
    \/ ThreadDraw
    \/ Return

SpecPerlin == InitPerlin /\ [][NextPerlin]_vars

\* The values j and k were initialised from the same size and seed.
SameParams(j, k) ==
    /\ perlins[j].st = "I"
    /\ perlins[k].st = "I"
    /\ inits.perlin[j][1] = inits.perlin[k][1]

InitLazy ==
    /\ pc = "ready"
    /\ scene = <<>>
    /\ objects = <<>>
    /\ split = 0
    /\ root = NoNode
    /\ tie = "stable"
    /\ last = NoCall
    /\ \E size \in PerlinSizes, seed \in Seeds : perlins = <<Perlin_U(size, seed)>>
    /\ texture = ImageTexture_new(TexFile)
    /\ file \in FileStates
    /\ thread_rng = 0
    /\ inits = [image |-> <<>>, perlin |-> <<<<>>>>]
    /\ NoRender

NextLazy ==
    \/ PerlinNoise
    \/ ImageValue
    \/ FileChange
    \/ Return

SpecLazy == InitLazy /\ [][NextLazy]_vars

\* The value a sample was taken of is initialised when the sample ends.
SamplePromotes ==
    /\ (last.op = "noise") => perlins[last.k].st = "I"
    /\ (last.op = "value") => texture.st = "I"

\* init ran at most once for every value.
InitAtMostOnce ==
    /\ Len(inits.image) <= 1
    /\ \A k \in 1..Len(perlins) : Len(inits.perlin[k]) <= 1

\* An initialised value keeps its state in every step.
InitialisedIsFrozen ==
    /\ texture.st = "I" => texture' = texture
    /\ \A k \in 1..Len(perlins) : perlins[k].st = "I" => perlins'[k] = perlins[k]

\* C17: the first sample of a Perlin or an ImageTexture value promotes it from
\* uninitialised to initialised, init runs at most once per value (a failed
\* image load is not retried), and an initialised value never changes again:
\* it does not return to uninitialised and later samples leave its state as
\* it is.
C17_Lifecycle ==
    /\ [](SamplePromotes /\ InitAtMostOnce)
    /\ [][InitialisedIsFrozen]_vars

(***************************************************************************)
(* The sampler (rtow/src/sampler.rs).  A coordinate is an exact fraction   *)
(* [num, den]; the rounding of f64 division is not modelled.               *)
(***************************************************************************)
Frac(num, den) == [num |-> num, den |-> den]
FracEq(a, b) == a.num * b.den = b.num * a.den
FracLe(a, b) == a.num * b.den <= b.num * a.den
FracLt(a, b) == a.num * b.den < b.num * a.den

\* SquareSampler::new(config, image)
SquareSampler_new(n, max_depth, width, height) ==
    [width |-> width, height |-> height, n |-> n, n2 |-> n * n, max_depth |-> max_depth]

\* sampler.iter(x, y)
SquareSampler_iter(sampler, x, y) ==
    [x |-> x, y |-> y, sample |-> 0, sampler |-> sampler]

NoItem == [some |-> FALSE]
SomeItem(u, v) == [some |-> TRUE, u |-> u, v |-> v]

\* The item SquareSamplerIter::next returns for the iterator it: i is
\* (sample % n) / n and j is sample / n2 (an integer division)
SquareSamplerIter_item(it) ==
    IF it.sample = it.sampler.n2 THEN NoItem
    ELSE SomeItem(Frac(it.x * it.sampler.n + (it.sample % it.sampler.n),
                       it.sampler.n * it.sampler.width),
                  Frac(it.y + (it.sample \div it.sampler.n2), it.sampler.height))

\* The iterator after SquareSamplerIter::next
SquareSamplerIter_next(it) ==
    IF it.sample = it.sampler.n2 THEN it ELSE [it EXCEPT !.sample = @ + 1]

MaxW == 3
MaxH == 2
MaxSamples == 3
MAX_DEPTH == 50

InitSampler ==
    /\ pc = "ready"
    /\ scene = <<>>
    /\ objects = <<>>
    /\ split = 0
    /\ root = NoNode
    /\ tie = "stable"
    /\ last = NoCall
    /\ NoTextures
    /\ image = <<>>
    /\ image_iter = <<>>
    /\ \E width \in 1..MaxW, height \in 1..MaxH, n \in 1..MaxSamples :
          \E x \in 0..(width - 1), y \in 0..(height - 1) :
             sampler_iter =
                SquareSampler_iter(SquareSampler_new(n, MAX_DEPTH, width, height), x, y)
    /\ stack = <<>>
    /\ hits = 0

\* sampler_iter.next()
SamplerNext ==
    /\ pc = "ready"
    /\ last' = [op |-> "next", it |-> sampler_iter,
                res |-> SquareSamplerIter_item(sampler_iter)]
    /\ sampler_iter' = SquareSamplerIter_next(sampler_iter)
    /\ pc' = "returned"
    /\ UNCHANGED <<scene, objects, split, root, tie, texvars, image, image_iter, stack, hits>>

NextSampler ==
    \/ SamplerNext
    \/ Return

SpecSampler == InitSampler /\ [][NextSampler]_vars

\* The coordinate the sampler is specified to yield as the k-th one.
GridItem(it, k) ==
    SomeItem(Frac(it.x * it.sampler.n + (k % it.sampler.n),
                  it.sampler.n * it.sampler.width),
             Frac(it.y * it.sampler.n + (k \div it.sampler.n),
                  it.sampler.n * it.sampler.height))

SameItem(a, b) == a.some /\ b.some /\ FracEq(a.u, b.u) /\ FracEq(a.v, b.v)

\* The coordinate lies in the cell of pixel (x, y).
InCell(item, it) ==
    /\ FracLe(Frac(it.x, it.sampler.width), item.u)
    /\ FracLt(item.u, Frac(it.x + 1, it.sampler.width))
    /\ FracLe(Frac(it.y, it.sampler.height), item.v)
    /\ FracLt(item.v, Frac(it.y + 1, it.sampler.height))

\* C18: the iterator of pixel (x, y) yields n * n coordinates and then None;
\* the k-th is ((x + (k mod n) / n) / width, (y + (k div n) / n) / height),
\* it differs from every earlier one and lies inside the cell of the pixel.
C18_SamplerGrid ==
    (last.op = "next") =>
        IF last.it.sample < last.it.sampler.n * last.it.sampler.n
        THEN /\ SameItem(last.res, GridItem(last.it, last.it.sample))
             /\ InCell(last.res, last.it)
             /\ \A k \in 0..(last.it.sample - 1) :
                   ~SameItem(last.res,
                             SquareSamplerIter_item([last.it EXCEPT !.sample = k]))
        ELSE ~last.res.some

(***************************************************************************)
(* The image and its scan (rtow/src/image.rs, the outer loop of main).     *)
(***************************************************************************)
\* Image::new(config): data is empty
Image_new(width, height) == [width |-> width, height |-> height, data |-> <<>>]

\* A variant of iter that starts at the bottom row.
Image_iter_BottomUp(img) == [width |-> img.width, x |-> 0, y |-> 0]

\* image.iter()
Image_iter(img) == [width |-> img.width, x |-> 0, y |-> img.height - 1]

\* image.add_pixel(color)
Image_add_pixel(img, color) ==
    [img EXCEPT !.data = @ \o <<color[1], color[2], color[3]>>]

NoPixel == [some |-> FALSE]
SomePixel(x, y) == [some |-> TRUE, x |-> x, y |-> y]

\* The item ImageIter::next returns for the iterator it
ImageIter_item(it) == IF it.y < 0 THEN NoPixel ELSE SomePixel(it.x, it.y)

\* The iterator after ImageIter::next
ImageIter_next(it) ==
    IF it.y < 0 THEN it
    ELSE [it EXCEPT !.x = (it.x + 1) % it.width,
                    !.y = IF (it.x + 1) % it.width = 0 THEN it.y - 1 ELSE it.y]

\* The colours main may compute for pixel (x, y): r names the pixel, g and
\* b differ from r and from each other.
PixelColors(x, y) == { <<100 + 10 * x + y, s, 200 + s>> : s \in 0..1 }

InitScan ==
    /\ pc = "ready"
    /\ scene = <<>>
    /\ objects = <<>>
    /\ split = 0
    /\ root = NoNode
    /\ tie = "stable"
    /\ last = NoCall
    /\ NoTextures
    /\ \E width \in 1..MaxW, height \in 1..MaxH : image = Image_new(width, height)
    /\ image_iter = Image_iter(image)
    /\ sampler_iter = <<>>
    /\ stack = <<>>
    /\ hits = 0

\* for (x, y) in image.iter(): the loop asks the iterator for the next pixel
ScanNext ==
    /\ pc = "ready"
    /\ last' = [op |-> "scan", res |-> ImageIter_item(image_iter)]
    /\ image_iter' = ImageIter_next(image_iter)
    /\ pc' = IF ImageIter_item(image_iter).some THEN "pixel" ELSE "done"
    /\ UNCHANGED <<scene, objects, split, root, tie, texvars, image, sampler_iter, stack, hits>>

\* The body of the loop ends with image.add_pixel(pixel_color.average().into())
AddPixel ==
    /\ pc = "pixel"
    /\ \E color \in PixelColors(last.res.x, last.res.y) :
          image' = Image_add_pixel(image, color)
    /\ pc' = "ready"
    /\ UNCHANGED <<scene, objects, split, root, tie, last, texvars, image_iter,
                   sampler_iter, stack, hits>>

NextScan ==
    \/ ScanNext
    \/ AddPixel

SpecScan == InitScan /\ [][NextScan]_vars

\* The number of pixels added to the image so far.
PixelsAdded == Len(image.data) \div 3

\* The three bytes of pixel (x, y) are at offset 3 * ((height - 1 - y) * width + x)
\* in the order r, g, b.
PixelAt(x, y) ==
    LET off == 3 * ((image.height - 1 - y) * image.width + x)
    IN  <<image.data[off + 1], image.data[off + 2], image.data[off + 3]>> \in PixelColors(x, y)

\* C19: for width >= 1 and height >= 1 the scan yields width * height pixels
\* and then None, the k-th being (k mod width, height - 1 - k div width): every
\* pixel once, top row first, left to right; with one add_pixel per yielded
\* pixel the buffer ends with 3 * width * height bytes and pixel (x, y) is at
\* offset 3 * ((height - 1 - y) * width + x) in r, g, b order.
C19_ScanOrder ==
    /\ (pc = "pixel") =>
          /\ PixelsAdded < image.width * image.height
          /\ last.res = SomePixel(PixelsAdded % image.width,
                                  image.height - 1 - (PixelsAdded \div image.width))
    /\ (pc = "done") =>
          /\ ~last.res.some
          /\ Len(image.data) = 3 * image.width * image.height
          /\ \A x \in 0..(image.width - 1), y \in 0..(image.height - 1) : PixelAt(x, y)

\* A scan of an image of more than one row and more than one column ended.
C19_Witness ==
    /\ pc = "done"
    /\ image.width >= 2
    /\ image.height >= 2
    /\ Len(image.data) = 3 * image.width * image.height

(***************************************************************************)
(* The integrator (ray_color in rtow/src/main.rs).  A colour is a triple   *)
(* in tenths.  What world.hit and scatter return is an input of every      *)
(* activation: "miss", "absorbed" (a hit whose material does not scatter), *)
(* "scattered" with an attenuation, or "panic" (Object_hit can panic).     *)
(***************************************************************************)
Black == <<0, 0, 0>>

\* base.mix(one, t) for t = 0
Sky == <<5, 7, 10>>

Attenuations == { <<1, 1, 1>>, <<0, 1, 1>>, <<1, 0, 1>> }

NoAttenuation == <<>>

ColorMul(a, b) == <<a[1] * b[1], a[2] * b[2], a[3] * b[3]>>

\* An activation of ray_color: its depth argument and, once its hit has
\* scattered, the attenuation it multiplies the result of its call with.
Frame(depth, attenuation) == [depth |-> depth, attenuation |-> attenuation]

\* A variant that passes depth on unchanged.
RayColor_child_depth_Same(depth) == depth

\* The depth argument of the recursive call: depth - 1
RayColor_child_depth(depth) == depth - 1

RECURSIVE Unwind(_, _)
\* The value the outermost activation returns when the innermost returns v:
\* every waiting activation returns attenuation * ray_color(..)
Unwind(frames, v) ==
    IF frames = <<>> THEN v
    ELSE Unwind(SubSeq(frames, 1, Len(frames) - 1),
                ColorMul(frames[Len(frames)].attenuation, v))

MaxD == 4

InitRay ==
    /\ pc = "ready"
    /\ scene = <<>>
    /\ objects = <<>>
    /\ split = 0
    /\ root = NoNode
    /\ tie = "stable"
    /\ last = NoCall
    /\ NoTextures
    /\ NoRender

\* pixel_color += ray_color(ray, &opt_world, depth)
RayColorCall ==
    /\ pc = "ready"
    /\ \E depth \in 0..MaxD : stack' = <<Frame(depth, NoAttenuation)>>
    /\ hits' = 0
    /\ pc' = "running"
    /\ UNCHANGED <<scene, objects, split, root, tie, last, texvars, image, image_iter,
                   sampler_iter>>

\* The innermost activation returns v and with it all the waiting ones.
RayColorReturn(v, h) ==
    /\ last' = [op |-> "ray_color", depth |-> stack[1].depth, hits |-> h,
                res |-> Unwind(SubSeq(stack, 1, Len(stack) - 1), v)]
    /\ stack' = <<>>
    /\ hits' = h
    /\ pc' = "returned"

\* The innermost activation calls ray_color(ray, world, depth - 1).
RayColorRecurse(attenuation) ==
    /\ stack' = Append([stack EXCEPT ![Len(stack)].attenuation = attenuation],
                       Frame(RayColor_child_depth(stack[Len(stack)].depth), NoAttenuation))
    /\ hits' = hits + 1
    /\ pc' = "running"
    /\ last' = last

\* world.hit or scatter panics.
RayColorPanic ==
    /\ hits' = hits + 1
    /\ pc' = "panicked"
    /\ UNCHANGED <<stack, last>>

\* The body of the innermost activation of ray_color.
RayColorStep ==
    /\ pc = "running"
    /\ IF stack[Len(stack)].depth = 0
       THEN RayColorReturn(Black, hits)
       ELSE \/ RayColorReturn(Sky, hits + 1)
            \/ RayColorReturn(Black, hits + 1)
            \/ \E attenuation \in Attenuations : RayColorRecurse(attenuation)
            \/ RayColorPanic
    /\ UNCHANGED <<scene, objects, split, root, tie, texvars, image, image_iter,
                   sampler_iter>>

NextRay ==
    \/ RayColorCall
    \/ RayColorStep
    \/ Return

\* An activation that has started runs on: ray_color awaits nothing.
SpecRay == InitRay /\ [][NextRay]_vars /\ WF_vars(RayColorStep)

\* While ray_color(.., depth) runs it has intersected the scene at most depth
\* times, every call inside it was made with depth - 1 by an activation whose
\* hit scattered, and depth 0 returns black without an intersection.
RayBounded ==
    /\ (pc = "running") => hits <= stack[1].depth
    /\ \A i \in 2..Len(stack) :
          /\ stack[i].depth = stack[i - 1].depth - 1
          /\ stack[i - 1].attenuation \in Attenuations
    /\ (last.op = "ray_color") =>
          /\ last.hits <= last.depth
          /\ (last.depth = 0) => (last.res = Black /\ last.hits = 0)

\* C20: ray_color with depth 0 returns black without intersecting the scene;
\* with depth d >= 1 it intersects the scene at most d times, each recursive
\* call is made with depth - 1 and only after a hit that scattered; and every
\* call of ray_color ends, whatever the hits and scatters return.
C20_RayColorTerminates ==
    /\ []RayBounded
    /\ (pc = "running") ~> (pc \in {"returned", "panicked"})

\* ray_color(.., depth) returned after depth hits that all scattered.
C20_Witness ==
    /\ pc = "returned"
    /\ last.op = "ray_color"
    /\ last.depth >= 2
    /\ last.hits = last.depth

(***************************************************************************)
(* Axis permutations (geometry3d Permute, ntuple NTuple::permute).  An     *)
(* NTuple of N elements is a sequence; perms holds indices from 0.         *)
(***************************************************************************)
\* self[perms[i]] is inside the tuple for every i
NTuple_permute_ok(t, perms) == \A i \in 1..Len(t) : perms[i] < Len(t)

\* t.permute(perms): arr[i] = self[perms[i]]
NTuple_permute(t, perms) == [i \in 1..Len(t) |-> t[perms[i] + 1]]

MaxTuple == 3
MaxV == 2

\* The tuples of the test: distinct elements
Tuples == { [i \in 1..n |-> 2 ^ (i - 1)] : n \in 1..MaxTuple }

\* The ordered triples that are a permutation of X, Y, Z
AxisPerms == { a \in [1..3 -> 1..3] : \A i \in 1..3 : \E j \in 1..3 : a[j] = i }

PermVecs == { <<x, y, z>> : x \in 0..MaxV, y \in 0..MaxV, z \in 0..MaxV }

PanicTuple == [panic |-> TRUE, t |-> <<>>]
SomeTuple(t) == [panic |-> FALSE, t |-> t]

\* p.permute(axes) and, on its result, unpermute(axes)
VecPermute ==
    /\ pc = "ready"
    /\ \E p \in PermVecs, axes \in AxisPerms :
          last' = [op |-> "permute", p |-> p, axes |-> axes,
                   res |-> Permute(p, axes),
                   back |-> Unpermute(Permute(p, axes), axes)]
    /\ pc' = "returned"
    /\ UNCHANGED <<scene, objects, split, root, tie, texvars, rendervars>>

\* t.permute(perms) and, on its result, permute(perms) again
TuplePermute ==
    /\ pc = "ready"
    /\ \E t \in Tuples :
          \E perms \in [1..Len(t) -> 0..Len(t)] :
             /\ last' = [op |-> "tuple_permute", t |-> t, perms |-> perms,
                         res |-> IF NTuple_permute_ok(t, perms)
                                 THEN SomeTuple(NTuple_permute(t, perms))
                                 ELSE PanicTuple,
                         twice |-> IF NTuple_permute_ok(t, perms)
                                   THEN SomeTuple(NTuple_permute(NTuple_permute(t, perms),
                                                                 perms))
                                   ELSE PanicTuple]
             /\ pc' = IF NTuple_permute_ok(t, perms) THEN "returned" ELSE "panicked"
    /\ UNCHANGED <<scene, objects, split, root, tie, texvars, rendervars>>

NextAxes ==
    \/ VecPermute
    \/ TuplePermute
    \/ Return

SpecAxes == InitAabb /\ [][NextAxes]_vars

\* perms is a permutation of the indices that is its own inverse
SelfInverse(perms) ==
    /\ \A i \in 1..Len(perms) : perms[i] < Len(perms)
    /\ \A i \in 1..Len(perms) : perms[perms[i] + 1] = i - 1

\* C21: for every permutation axes of X, Y, Z and every p, p.permute(axes) is
\* (p[axes[0]], p[axes[1]], p[axes[2]]) and unpermute(axes) takes it back to
\* p; NTuple::permute applied twice with a self-inverse permutation returns
\* the tuple it started from, and it panics exactly when an index is outside
\* [0, N).
C21_PermuteUnpermute ==
    /\ (last.op = "permute") =>
          /\ \A i \in 1..3 : last.res[i] = last.p[last.axes[i]]
          /\ last.back = last.p
    /\ (last.op = "tuple_permute") =>
          /\ last.res.panic = (\E i \in 1..Len(last.t) : last.perms[i] \notin 0..(Len(last.t) - 1))
          /\ (pc = "panicked") = last.res.panic
          /\ SelfInverse(last.perms) => last.twice = SomeTuple(last.t)

\* A cyclic permutation of the axes moved every component of p and unpermute
\* restored it.
C21_Witness ==
    /\ last.op = "permute"
    /\ last.axes = <<2, 3, 1>>
    /\ last.p = <<0, 1, 2>>
    /\ last.res = <<1, 2, 0>>
    /\ last.back = last.p

(***************************************************************************)
(* The shape of the hierarchy from_vec builds.                             *)
(***************************************************************************)
\* The arrangements of the slice s
Arrangements(s) ==
    { [i \in 1..Len(s) |-> s[f[i]]] :
        f \in { g \in [1..Len(s) -> 1..Len(s)] :
                  \A i, j \in 1..Len(s) : g[i] = g[j] => i = j } }

\* p is ordered by the axis coordinate of the lower corner of each box
SortedBy(p, axis) ==
    \A i, j \in 1..Len(p) :
        i < j => SortKey(p[i], axis, BuildRange) <= SortKey(p[j], axis, BuildRange)

RECURSIVE BuiltFrom(_, _)
\* n is a node from_vec may return for the slice s: a leaf pair for one or
\* two objects, otherwise two nodes over the first floor(n/2) and the other
\* objects of the slice as sorted along some axis
BuiltFrom(n, s) ==
    /\ n.kind = "BVHNode"
    /\ Len(s) >= 1
    /\ IF Len(s) = 1 THEN n.left = s[1] /\ n.right = s[1]
       ELSE IF Len(s) = 2 THEN n.left = s[1] /\ n.right = s[2]
       ELSE \E axis \in Axes3 :
               \E p \in Arrangements(s) :
                  /\ SortedBy(p, axis)
                  /\ Len(s) \div 2 >= 1
                  /\ Len(s) - (Len(s) \div 2) < Len(s)
                  /\ BuiltFrom(n.left, SubSeq(p, 1, Len(s) \div 2))
                  /\ BuiltFrom(n.right, SubSeq(p, (Len(s) \div 2) + 1, Len(s)))

\* The slice from_list hands to from_vec: the members with a bounding box
Boxed == SubSeq(objects, split + 1, Len(objects))

\* C22: for a slice of n >= 1 objects from_vec returns a node with both
\* children: copies of object 0 for n = 1, objects 0 and 1 for n = 2, and for
\* n >= 3 two nodes built from the first floor(n/2) and the remaining objects
\* of the sorted slice, both parts non-empty and smaller than n.
C22_FromVecShape ==
    (pc # "start" /\ Len(Boxed) >= 1) =>
        /\ pc = "ready"
        /\ BuiltFrom(root, Boxed)

\* A slice of three objects was split into a node over one object and a node
\* over two.
C22_Witness ==
    /\ pc = "ready"
    /\ Len(Boxed) = 3
    /\ root.left.kind = "BVHNode"
    /\ root.left.left = root.left.right
    /\ root.right.kind = "BVHNode"
    /\ root.right.left # root.right.right

(***************************************************************************)
(* The choice of the axis in from_vec.                                     *)
(***************************************************************************)
\* Spheres placed so that the pairs of two axes differ and have equal ratios
SphL == Sphere(<<-3, 0, 3>>, <<0, 0, 0>>, 0, 1, 7)
SphR == Sphere(<<3, 0, -3>>, <<0, 0, 0>>, 0, 1, 8)

PickCatalogue == {SphA, SphB, SphL, SphR, RectYZ}

PickScenes ==
    UNION { { s \in [1..n -> PickCatalogue] : \A i, j \in 1..n : i # j => s[i] # s[j] }
            : n \in 0..MaxObjs }

InitPick == InitWith(PickScenes)
SpecPick == InitPick /\ [][NextBuild]_vars

\* The slice from_list hands to from_vec, as the sweep leaves it
SweptSlice(sw) == SubSeq(sw.objects, sw.i + 1, Len(sw.objects))
InputSlice == SweptSlice(Sweep(scene, 0, 1, BuildRange))

\* The pairs from_vec builds for the axes x, y and z, each on the slice as the
\* pair before it left it
PairX == BVHNode_lr(InputSlice, 1, BuildRange)
PairY == BVHNode_lr(PairX.objects, 2, BuildRange)
PairZ == BVHNode_lr(PairY.objects, 3, BuildRange)

\* max(vol(left), vol(right)) / min(vol(left), vol(right)) of a pair
PairRatio(p) == Ratio(AABB_volume(p.left.aabb), AABB_volume(p.right.aabb))

\* The node has the children of the pair.
HasPair(n, p) == n.left = p.left /\ n.right = p.right

\* The children of n are built from the halves of the slice as sorted along
\* the axis.
SplitAlong(n, axis) ==
    \E p \in Arrangements(InputSlice) :
        /\ SortedBy(p, axis)
        /\ BuiltFrom(n.left, SubSeq(p, 1, Len(p) \div 2))
        /\ BuiltFrom(n.right, SubSeq(p, (Len(p) \div 2) + 1, Len(p)))

\* The axis whose pair the root has: the first of x, y, z with the smallest
\* ratio
ChosenAxis ==
    IF ~RatioLt(PairY.ratio, PairX.ratio) /\ ~RatioLt(PairZ.ratio, PairX.ratio) THEN 1
    ELSE IF ~RatioLt(PairZ.ratio, PairY.ratio) THEN 2
    ELSE 3

\* C23: for n >= 3 from_vec keeps the pair of the axis with the smallest
\* ratio max(vol)/min(vol), x before y before z among equal ratios, and the
\* kept pair is the one built from the slice as sorted along that axis.
C23_SmallestRatioAxis ==
    (pc = "ready" /\ Len(InputSlice) >= 3) =>
        /\ PairX.ratio = PairRatio(PairX)
        /\ PairY.ratio = PairRatio(PairY)
        /\ PairZ.ratio = PairRatio(PairZ)
        /\ HasPair(root, <<PairX, PairY, PairZ>>[ChosenAxis])
        /\ SplitAlong(root, ChosenAxis)

\* The pairs of x and z differ and have the same ratio, the smallest of the
\* three, and the pair of x was kept.
C23_Witness ==
    /\ pc = "ready"
    /\ Len(InputSlice) >= 3
    /\ RatioEq(PairX.ratio, PairZ.ratio)
    /\ ~RatioLt(PairY.ratio, PairX.ratio)
    /\ ~HasPair(root, PairZ)
    /\ HasPair(root, PairX)

(***************************************************************************)
(* The order the sorts of the build leave the slice in.                    *)
(***************************************************************************)
\* The index of the object x in the slice s
PosIn(s, x) == CHOOSE k \in 1..Len(s) : s[k] = x

\* after is before sorted along the axis with equal keys in their order in
\* before
StablySorted(before, after, axis) ==
    \A i, j \in 1..Len(after) :
        i < j =>
           /\ SortKey(after[i], axis, BuildRange) <= SortKey(after[j], axis, BuildRange)
           /\ SortKey(after[i], axis, BuildRange) = SortKey(after[j], axis, BuildRange)
                 => PosIn(before, after[i]) < PosIn(before, after[j])

\* C24: every sort of the build orders the slice by the axis coordinate of the
\* lower corner of each object's box and keeps objects with equal coordinates
\* in the order they had before the sort.
C24_SortStable ==
    (pc = "ready" /\ Len(InputSlice) \in 3..4) =>
        /\ StablySorted(InputSlice, PairX.objects, 1)
        /\ StablySorted(PairX.objects, PairY.objects, 2)
        /\ StablySorted(PairY.objects, Boxed, 3)

(***************************************************************************)
(* List::hit against its members.                                          *)
(***************************************************************************)
\* what member k of the scene list returns when it alone is asked about the
\* ray and the range of the last call
MemberHit(k) == Object_hit(objects[k], last.ray, last.range).res

MembersHit == { k \in 1..Len(objects) : MemberHit(k).k = "some" }

\* C25: List::hit returns None exactly when no member is hit within the
\* range, and otherwise a hit whose t is the least of the members' hits.
C25_ListHitClosest ==
    ListReturned =>
        IF MembersHit = {} THEN last.res.k = "none"
        ELSE /\ last.res.k = "some"
             /\ \E k \in MembersHit : MemberHit(k).t = last.res.t
             /\ \A k \in MembersHit : FLe(last.res.t, MemberHit(k).t)

(***************************************************************************)
(* Sphere::bounding_box on its own: spheres that move, stand still, have a *)
(* negative or a zero radius, over every range of a small grid of times.   *)
(***************************************************************************)
MaxT == 3
Times == 0..MaxT
MovingSpheres ==
    { Sphere(o, <<dx, dy, 0>>, tm, r, 1) :
        o \in {<<0, 0, 0>>, <<1, -1, 0>>}, dx \in {-1, 0, 1}, dy \in {0, 1},
        tm \in {0, 1}, r \in {-1, 0, 1, 2} }

\* sphere.bounding_box(range); AABB::new panics on a cube without extent
SphereBoundingBox ==
    /\ pc = "ready"
    /\ \E s \in MovingSpheres, t0 \in Times, t1 \in Times :
          /\ last' = [op |-> "sphere_box", s |-> s, range |-> TRange(t0, t1),
                      res |-> IF s.r # 0 THEN Sphere_bounding_box(s, TRange(t0, t1))
                              ELSE PanicBox]
          /\ pc' = IF s.r # 0 THEN "returned" ELSE "panicked"
    /\ UNCHANGED <<scene, objects, split, root, tie, texvars, rendervars>>

NextSphere ==
    \/ SphereBoundingBox
    \/ Return

SpecSphere == InitAabb /\ [][NextSphere]_vars

\* the cube [center(t) - r, center(t) + r] around the sphere at time t
CubeAt(s, t) ==
    LET c == Sphere_center(s, t)
    IN  [some |-> TRUE,
         lo |-> <<c[1] - Abs(s.r), c[2] - Abs(s.r), c[3] - Abs(s.r)>>,
         hi |-> <<c[1] + Abs(s.r), c[2] + Abs(s.r), c[3] + Abs(s.r)>>]

\* C26: the bounding box of a sphere over a range is the merge of its cubes at
\* range.start and range.end, and contains its cube at every time in between.
C26_MovingBoxConservative ==
    (last.op = "sphere_box" /\ pc = "returned") =>
        /\ last.res.some
        /\ \A i \in Axes3 :
              /\ last.res.lo[i] = Min2(CubeAt(last.s, last.range.start).lo[i],
                                       CubeAt(last.s, last.range.end).lo[i])
              /\ last.res.hi[i] = Max2(CubeAt(last.s, last.range.start).hi[i],
                                       CubeAt(last.s, last.range.end).hi[i])
        /\ \A t \in last.range.start..last.range.end :
              BoxContains(last.res, CubeAt(last.s, t))

\* a sphere in motion over a range with a time strictly inside it: the box is
\* neither the cube at the start nor the cube at the end
C26_Witness ==
    /\ last.op = "sphere_box"
    /\ pc = "returned"
    /\ last.range.start + 1 < last.range.end
    /\ last.res # CubeAt(last.s, last.range.start)
    /\ last.res # CubeAt(last.s, last.range.end)

(***************************************************************************)
(* RectPrism on its own: prisms that start unexpanded and are hit again    *)
(* and again.  inits[k] counts the runs of RectPrism::_init on prism k.    *)
(***************************************************************************)
PrismRev == RectPrismU(<<3, 1, 1>>, <<1, -1, -1>>, 7)
PrismScenes == { <<Prism>>, <<PrismRev>>, <<Prism, PrismRev>> }
PrismRays == { ray \in Rays : ray.time = TimeMin /\ ray.origin[2] = 0 }

InitPrism ==
    /\ pc = "ready"
    /\ scene \in PrismScenes
    /\ objects = scene
    /\ split = 0
    /\ root = NoNode
    /\ tie \in TieOrders
    /\ last = NoCall
    /\ perlins = <<>>
    /\ texture = [st |-> "none"]
    /\ file = "none"
    /\ thread_rng = 0
    /\ inits = [k \in 1..Len(scene) |-> 0]
    /\ NoRender

\* objects[k].hit(ray, range) on a prism
PrismHit ==
    /\ pc = "ready"
    /\ \E k \in 1..Len(objects), ray \in PrismRays, range \in Ranges :
          \E h \in {RectPrism_hit(objects[k], ray, range)} :
             /\ objects' = [objects EXCEPT ![k] = h.obj]
             /\ inits' = [inits EXCEPT ![k] = IF objects[k].st = "U" THEN @ + 1 ELSE @]
             /\ last' = [op |-> "prism_hit", k |-> k, first |-> objects[k].st = "U",
                         ray |-> ray, range |-> range, res |-> h.res]
             /\ pc' = IF h.res.k = "panic" THEN "panicked" ELSE "returned"
    /\ UNCHANGED <<scene, split, root, tie, perlins, texture, file, thread_rng, rendervars>>

NextPrism ==
    \/ PrismHit
    \/ Return

SpecPrism == InitPrism /\ [][NextPrism]_vars

\* the six rectangles of the prism with corners u.p0, u.p1: on each axis one
\* at the least and one at the greatest of the two corner coordinates
ExpectedSides(u) ==
    LET lo == [i \in Axes3 |-> Min2(u.p0[i], u.p1[i])]
        hi == [i \in Axes3 |-> Max2(u.p0[i], u.p1[i])]
        x == TRange(lo[1], hi[1])
        y == TRange(lo[2], hi[2])
        z == TRange(lo[3], hi[3])
    IN  { Rect("XYRect", x, y, w, u.m) : w \in {lo[3], hi[3]} }
          \cup { Rect("XZRect", x, z, w, u.m) : w \in {lo[2], hi[2]} }
          \cup { Rect("YZRect", y, z, w, u.m) : w \in {lo[1], hi[1]} }

\* a hit leaves the prism expanded
HitExpands == last.op = "prism_hit" => objects[last.k].st = "I"

\* an expanded prism is a BVH whose leaves are its six sides
SixSides ==
    \A k \in 1..Len(objects) :
        objects[k].st = "I" =>
            /\ objects[k].sides.kind = "BVHNode"
            /\ Leaves(objects[k].sides) = ExpectedSides(scene[k])
            /\ Cardinality(Leaves(objects[k].sides)) = 6

\* _init has run once on an expanded prism and never on an unexpanded one
ExpandedOnce ==
    \A k \in 1..Len(objects) : inits[k] = IF objects[k].st = "I" THEN 1 ELSE 0

\* an expanded prism stays as it is: expanded, with the same inner BVH
ExpansionKept ==
    \A k \in 1..Len(objects) : objects[k].st = "I" => objects'[k] = objects[k]

\* C27: a RectPrism expands on its first hit into six rectangles, two per
\* axis at the min and the max corner coordinate, wrapped in a BVH; the
\* expansion runs once, later hits reuse the same inner BVH and the prism
\* never returns to the unexpanded state.
C27_PrismMemoized ==
    /\ [](HitExpands /\ SixSides /\ ExpandedOnce)
    /\ [][ExpansionKept]_vars

\* a hit on a prism that an earlier hit has expanded, with a result
C27_Witness ==
    /\ last.op = "prism_hit"
    /\ ~last.first
    /\ last.res.k = "some"
    /\ \E k \in 1..Len(objects) : objects[k].st = "U"

(***************************************************************************)
(* Metal::scatter (rtow/src/material.rs).  Normals are the unit vectors of *)
(* the axes, for which the division of Vec3::projection is exact; the      *)
(* samples of in_unit_sphere are the points of the grid inside the sphere. *)
(* pc = "loop" while scatter is in its resampling loop; `last` holds the   *)
(* call: the hit record, the fuzz, the reflection, the number of           *)
(* iterations so far (counted up to MaxTries), the last direction tried.   *)
(***************************************************************************)
Vec3_quadrance(a) == Dot(a, a)

Vec3_projection(a, b) == VScale(Dot(a, b) \div Vec3_quadrance(b), b)

\* a "reflection" that lets the vector pass through the plane
Vec3_reflection_Through(a, normal) == a

Vec3_reflection(a, normal) == VSub(a, VScale(2, Vec3_projection(a, normal)))

\* Random::in_unit_sphere: what its rejection loop can return
Random_in_unit_sphere == { v \in SmallVecs : Vec3_quadrance(v) <= 1 }

\* direction = reflection + self.fuzz * rng.in_unit_sphere()
Metal_direction(reflection, fuzz, v) == VAdd(reflection, VScale(fuzz, v))

\* the test of the loop: continue, or break
Metal_break(direction, normal) ==
    ~(Vec3_quadrance(direction) = 0 \/ Dot(direction, normal) <= 0)

NoScatter == [some |-> FALSE, direction |-> <<0, 0, 0>>]
SomeScatter(direction) == [some |-> TRUE, direction |-> direction]

MaxFuzz == 2
MaxTries == 3
UnitNormals == { n \in SmallVecs : Vec3_quadrance(n) = 1 }

\* material.scatter(rec): None at once on a back face, else into the loop
MetalScatter ==
    /\ pc = "ready"
    /\ \E d \in SmallVecs, n \in UnitNormals, fuzz \in 0..MaxFuzz :
          \E rec \in {HitRecord_new(<<0, 0, 0>>, n, Ray3(<<0, 0, 0>>, d, 0), 1, 1, 0, 0)} :
             /\ last' = [op |-> "scatter", ray |-> Ray3(<<0, 0, 0>>, d, 0), rec |-> rec,
                         fuzz |-> fuzz,
                         reflection |-> IF rec.front_face THEN Vec3_reflection(d, rec.normal)
                                        ELSE <<0, 0, 0>>,
                         tries |-> 0, direction |-> <<0, 0, 0>>, res |-> NoScatter]
             /\ pc' = IF rec.front_face THEN "loop" ELSE "returned"
    /\ UNCHANGED <<scene, objects, split, root, tie, texvars, rendervars>>

Tried(v) ==
    [last EXCEPT !.tries = IF @ < MaxTries THEN @ + 1 ELSE @,
                 !.direction = Metal_direction(last.reflection, last.fuzz, v)]

\* an iteration of the loop that ends in `continue`
MetalContinue ==
    /\ pc = "loop"
    /\ \E v \in Random_in_unit_sphere :
          /\ ~Metal_break(Tried(v).direction, last.rec.normal)
          /\ last' = Tried(v)
    /\ UNCHANGED <<pc, scene, objects, split, root, tie, texvars, rendervars>>

\* an iteration of the loop that ends in `break`: scatter returns
MetalBreak ==
    /\ pc = "loop"
    /\ \E v \in Random_in_unit_sphere :
          /\ Metal_break(Tried(v).direction, last.rec.normal)
          /\ last' = [Tried(v) EXCEPT !.res = SomeScatter(Tried(v).direction)]
    /\ pc' = "returned"
    /\ UNCHANGED <<scene, objects, split, root, tie, texvars, rendervars>>

NextMetal ==
    \/ MetalScatter
    \/ MetalContinue
    \/ MetalBreak
    \/ Return

\* fair sampling: a sample that ends the loop is not withheld for ever
SpecMetal == InitAabb /\ [][NextMetal]_vars /\ WF_vars(MetalBreak)

\* no sample is drawn on a back face, and the result is None
BackFaceNone ==
    (last.op = "scatter" /\ ~last.rec.front_face) =>
        pc = "returned" /\ ~last.res.some /\ last.tries = 0

\* the loop is left only with a direction that has length and points to the
\* side of the normal
ExitDirection ==
    (last.op = "scatter" /\ last.res.some) =>
        /\ last.rec.front_face
        /\ last.res.direction # <<0, 0, 0>>
        /\ Dot(last.res.direction, last.rec.normal) > 0

\* the mirror reflection itself points to the side of the normal, so fuzz = 0
\* is accepted in the first iteration
MirrorAccepted ==
    (last.op = "scatter" /\ last.rec.front_face) =>
        /\ Dot(last.reflection, last.rec.normal) > 0
        /\ (last.fuzz = 0 /\ pc = "returned") => last.tries = 1
        /\ (last.fuzz = 0 /\ pc = "loop") => last.tries = 0

\* C28: Metal::scatter returns None on a back face without sampling; on a
\* front face its loop is left only with a non-zero direction that has a
\* positive dot product with the normal, the first iteration is accepted when
\* fuzz = 0, and under fair sampling the loop is left.
C28_MetalScatter ==
    /\ [](BackFaceNone /\ ExitDirection /\ MirrorAccepted)
    /\ (pc = "loop" ~> pc = "returned")

\* scatter returned after an iteration that was rejected
C28_Witness ==
    /\ last.op = "scatter"
    /\ pc = "returned"
    /\ last.res.some
    /\ last.tries > 1
    /\ last.res.direction # last.reflection

(***************************************************************************)
(* The leaves of the hierarchy against the input of from_list.             *)
(***************************************************************************)
\* the members of the input that have a bounding box
BoxedInput == { scene[k] : k \in { j \in 1..Len(scene) :
                                     Object_bounding_box(scene[j], BuildRange).some } }

\* below n an object is a leaf twice only as the two children of one node
RECURSIVE TwiceOnlyAsTwins(_)
TwiceOnlyAsTwins(n) ==
    IF n.kind # "BVHNode" THEN TRUE
    ELSE IF n.left = n.right THEN n.left.kind # "BVHNode"
    ELSE /\ Leaves(n.left) \cap Leaves(n.right) = {}
         /\ TwiceOnlyAsTwins(n.left)
         /\ TwiceOnlyAsTwins(n.right)

\* C29: every member of the input of from_list that has a bounding box is a
\* leaf of the hierarchy, every leaf is such a member, and a member is a leaf
\* twice only as the two children of a node over a single object.
C29_LeavesAreInput ==
    pc # "start" =>
        /\ \A x \in BoxedInput : pc = "ready" /\ x \in Leaves(root)
        /\ pc = "ready" =>
              /\ \A x \in Leaves(root) : x \in BoxedInput
              /\ TwiceOnlyAsTwins(root)

\* three members with a box and one without: the hierarchy has a node over
\* a single object next to a node over two
C29_Witness ==
    /\ pc = "ready"
    /\ Cardinality(BoxedInput) = 3
    /\ \E n \in {root.left, root.right} : n.kind = "BVHNode" /\ n.left = n.right
    /\ \E n \in {root.left, root.right} : n.kind = "BVHNode" /\ n.left # n.right

(***************************************************************************)
(* The indices of Perlin::noise_calc.                                      *)
(***************************************************************************)
PowerOfTwo(n) == \E e \in 0..n : 2 ^ e = n

\* the state the value of the last call of noise holds
NoiseState == perlins[last.k].i

\* the three table entries of corner c of the cell of the last call
CornerPerms(c) ==
    <<NoiseState.perm_x[LatticeIndex(NoiseState, PFloor(last.p), Offsets[c], 1) + 1],
      NoiseState.perm_y[LatticeIndex(NoiseState, PFloor(last.p), Offsets[c], 2) + 1],
      NoiseState.perm_z[LatticeIndex(NoiseState, PFloor(last.p), Offsets[c], 3) + 1]>>

\* C30: when size is a power of two, every lattice index of noise is in
\* [0, size), also at negative coordinates, and every gradient index
\* perm_x[i] ^ perm_y[j] ^ perm_z[k] is below size: noise does not panic.
C30_NoiseInBounds ==
    (last.op = "noise" /\ PowerOfTwo(NoiseState.size)) =>
        /\ \A c \in 1..8, axis \in Axes3 :
              LatticeIndex(NoiseState, PFloor(last.p), Offsets[c], axis)
                  \in 0..(NoiseState.size - 1)
        /\ \A c \in 1..8 :
              CornerIndex(NoiseState, PFloor(last.p), Offsets[c]) \in 0..(NoiseState.size - 1)
        /\ ~last.res.panic
        /\ pc # "panicked"

\* noise at a negative coordinate, with a corner whose three table entries
\* add up to size or more
C30_Witness ==
    /\ last.op = "noise"
    /\ pc = "returned"
    /\ PowerOfTwo(NoiseState.size)
    /\ last.p[1] < 0
    /\ \E c \in 1..8 : CornerPerms(c)[1] + CornerPerms(c)[2] + CornerPerms(c)[3] >= NoiseState.size

====
